---- MODULE Spec2Model ----
(***************************************************************************)
(* Turn engine of the Sproingle rogue-lite.  The repository holds two      *)
(* evolutions of the engine (App.tsx): engine "A" (src/unnamed/part_000    *)
(* with src/constants.ts) and engine "B" (src/unnamed/part_001 with        *)
(* src/unnamed/part_002).  One behaviour runs one engine.                  *)
(*                                                                         *)
(* One action is one browser task: an input handler or a timer callback    *)
(* together with the React state updates it queues, applied in queue       *)
(* order before the next task runs (updater functions run once).           *)
(***************************************************************************)
EXTENDS Integers, Sequences, FiniteSets, TLC

\* ------------------------------------------------------------ constants.ts
VIEWPORT_WIDTH == 13
VIEWPORT_HEIGHT == 20
WORLD_SCREENS_W == 3
WORLD_SCREENS_H == 3
XP_BASE == 100
BOMB_FUSE_STEPS == 6
BOMB_RANGE == 6
POISON_TICK_STEPS == 3
POISON_DAMAGE == 5
\* part_002 (engine B)
BOMB_FUSE_STEPS_B == 4
BOMB_RANGE_B == 2

\* ------------------------------------------------------------------ bounds
\* newGame calls (level transitions and restarts) allowed after the first.
MaxNewGames == 1
\* deepest dungeon level a run may enter.
MaxDungeonLevel == 4
\* engine B: timer callbacks that may be pending when a move is accepted
\* (how far the keys may run ahead of the 100 ms timers).
MaxTimers == 2
\* arrows the player fires in a run through the archery corridor.
MaxShots == 2
\* times the player pauses a run.
MaxPauses == 1
\* enemies the player inspects in a run through the gallery.
MaxInspects == 2
\* steps onto an altar in a run through the shrine.
MaxPrayers == 3
\* tiles beyond the edge of the map a walk or an arrow is followed for
MaxStray == 1

Directions == {"ArrowUp", "ArrowDown", "ArrowLeft", "ArrowRight"}
NoDirection == "none"

Abs(n) == IF n < 0 THEN -n ELSE n
Sign(n) == IF n > 0 THEN 1 ELSE IF n < 0 THEN -1 ELSE 0
Min(a, b) == IF a < b THEN a ELSE b
Max(a, b) == IF a > b THEN a ELSE b

\* Math.floor(XP_BASE * Math.pow(level, XP_GROWTH_FACTOR)), XP_GROWTH_FACTOR = 1.5
XpThreshold(level) ==
    CASE level = 1 -> 100
      [] level = 2 -> 282
      [] level = 3 -> 519
      [] level = 4 -> 800
      [] level = 5 -> 1118
      [] level = 6 -> 1469
      [] OTHER -> 1852

\* ENEMY_STYLES[type].baseXp
BaseXp(type) ==
    CASE type = "GOBLIN" -> 10
      [] type = "SLIME" -> 8
      [] type = "SKELETON" -> 12
      [] type = "SPIDER" -> 15

\* Math.floor(baseXp * (1 + level / 10)); equal to the float result for level < 72
XpGained(type, level) == (BaseXp(type) * (10 + level)) \div 10

\* PLAYER_CLASSES[c].stats
ClassStats(c) ==
    CASE c = "Knight" ->
           [maxHp |-> 120, hp |-> 120, attack |-> 12, gold |-> 0,
            arrows |-> 0, maxArrows |-> 3, bombs |-> 0, maxBombs |-> 3,
            potions |-> 1, antidotes |-> 0,
            meleeDamageBonus |-> 2, arrowDamageBonus |-> 0, bombDamageBonus |-> -15]
      [] c = "Ranger" ->
           [maxHp |-> 100, hp |-> 100, attack |-> 10, gold |-> 0,
            arrows |-> 6, maxArrows |-> 9, bombs |-> 0, maxBombs |-> 3,
            potions |-> 0, antidotes |-> 1,
            meleeDamageBonus |-> -2, arrowDamageBonus |-> 5, bombDamageBonus |-> -10]
      [] c = "Sapper" ->
           [maxHp |-> 100, hp |-> 100, attack |-> 10, gold |-> 10,
            arrows |-> 0, maxArrows |-> 3, bombs |-> 3, maxBombs |-> 5,
            potions |-> 1, antidotes |-> 0,
            meleeDamageBonus |-> 0, arrowDamageBonus |-> -5, bombDamageBonus |-> 25]

\* record r with the fields of s written over it ({...r, ...s})
Spread(r, s) ==
    [k \in DOMAIN r \cup DOMAIN s |-> IF k \in DOMAIN s THEN s[k] ELSE r[k]]

\* initialPlayer of constants.ts: the player a generated dungeon starts from
initialPlayer ==
    Spread(ClassStats("Knight"),
           [x |-> 1, y |-> 1, level |-> 1, xp |-> 0, xpToNextLevel |-> XP_BASE,
            playerClass |-> "Knight", lastMoveDirection |-> NoDirection,
            isPoisoned |-> FALSE, poisonStepCounter |-> 0,
            corruption |-> 0, activeAugments |-> {}])

\* ----------------------------------------------------------------- dungeons
\* generateDungeon(level) is an external collaborator.  The model draws the
\* generated dungeon from a fixed family of small layouts; gameState.map
\* names the layout, which fixes the map, the items, the hazards, the wizard
\* and the exit.  Every tile that is not listed as floor is a WALL.
Pos(x, y) == [x |-> x, y |-> y]
NoPos == [x |-> -1, y |-> -1]
Enemy(id, type, x, y, hp, attack) ==
    [id |-> id, type |-> type, x |-> x, y |-> y, hp |-> hp, attack |-> attack]
Item(type, x, y) == [type |-> type, x |-> x, y |-> y]

Corridor(from, to) == {Pos(x, 1) : x \in from..to}

LayoutIds == {1, 2, 3, 4, 5, 6, 7, 8, 9, 10, 11, 12, 13, 14, 15}

\* 1: a corridor held by a spider.
\* 2: the corner of the first screen (x <= 12, y <= 19) with a bomb to pick
\*    up; ten spiders wait on the screens to the right and below, in line
\*    with the tiles of the corner.
\* 3: gold, a potion, spikes, a pit, the wizard and the exit, no enemies.
\* 4: gold, a bomb to pick up and the exit.
\* 5: the archery corridor: five empty tiles between walls.
\* 6: the gallery: a three-tile corridor in view of a goblin and a skeleton,
\*    each walled into a cell of its own.
\* 7: the powder corridor: five tiles between walls, a bomb to pick up and
\*    gold further down.
\* 8: the market: five tiles with gold on the way to the wizard.
\* 9: the wizard's hall: the wizard one step to the right of the entrance,
\*    the exit one step below it, and a goblin at the end of the hall.
\* 10: the column: a corridor with two goblins, one behind the other.
\* 11: the shrine: the archery corridor with an altar on its second tile.
\* 12: the powder hall: three tiles, two bombs to pick up, and a goblin
\*     walled into a cell two tiles below the first.
\* 13: the pit lane: three tiles, spikes on the second, a pit with a potion
\*     lying on it on the third.
\* 14: the threshold: three tiles of floor that begin on the western edge of
\*     the world.
\* 15: the fork: two goblins, one above and one to the left of a free tile
\*     that lies diagonally off the tile next to the entrance.
Layout(id) ==
    CASE id = 1 ->
           [floor |-> Corridor(1, 5), entrance |-> Pos(1, 1),
            enemies |-> << Enemy(1, "SPIDER", 4, 1, 16, 45) >>,
            items |-> {}, hazards |-> {},
            wizard |-> NoPos, exit |-> Pos(5, 1)]
      [] id = 2 ->
           [floor |-> {Pos(x, 19) : x \in 10..16}
                      \cup {Pos(10, y) : y \in 20..23}
                      \cup {Pos(12, y) : y \in 20..21},
            entrance |-> Pos(11, 19),
            enemies |-> << Enemy(1, "SPIDER", 10, 20, 10, 200),
                           Enemy(2, "SPIDER", 10, 21, 10, 200),
                           Enemy(3, "SPIDER", 10, 22, 10, 200),
                           Enemy(4, "SPIDER", 10, 23, 10, 200),
                           Enemy(5, "SPIDER", 12, 20, 10, 200),
                           Enemy(6, "SPIDER", 12, 21, 10, 200),
                           Enemy(7, "SPIDER", 13, 19, 10, 200),
                           Enemy(8, "SPIDER", 14, 19, 10, 200),
                           Enemy(9, "SPIDER", 15, 19, 10, 200),
                           Enemy(10, "SPIDER", 16, 19, 10, 200) >>,
            items |-> {Item("BOMB", 12, 19)}, hazards |-> {},
            wizard |-> NoPos, exit |-> NoPos]
      [] id = 3 ->
           [floor |-> Corridor(1, 5) \cup {Pos(2, 2), Pos(4, 2)},
            entrance |-> Pos(1, 1),
            enemies |-> << >>,
            items |-> {Item("GOLD", 2, 1), Item("POTION", 3, 1)},
            hazards |-> {Item("SPIKES", 4, 1), Item("PIT", 4, 2)},
            wizard |-> Pos(2, 2), exit |-> Pos(5, 1)]
      [] id = 5 ->
           [floor |-> Corridor(1, 5), entrance |-> Pos(1, 1),
            enemies |-> << >>, items |-> {}, hazards |-> {},
            wizard |-> NoPos, exit |-> NoPos]
      [] id = 6 ->
           [floor |-> Corridor(1, 3) \cup {Pos(1, 3), Pos(3, 3)},
            entrance |-> Pos(1, 1),
            enemies |-> << Enemy(1, "GOBLIN", 1, 3, 30, 8),
                           Enemy(2, "SKELETON", 3, 3, 50, 12) >>,
            items |-> {}, hazards |-> {},
            wizard |-> NoPos, exit |-> NoPos]
      [] id = 7 ->
           [floor |-> Corridor(1, 5), entrance |-> Pos(1, 1),
            enemies |-> << >>,
            items |-> {Item("BOMB", 2, 1), Item("GOLD", 4, 1)}, hazards |-> {},
            wizard |-> NoPos, exit |-> NoPos]
      [] id = 8 ->
           [floor |-> Corridor(1, 7), entrance |-> Pos(1, 1),
            enemies |-> << >>,
            items |-> {Item("GOLD", x, 1) : x \in 2..6}, hazards |-> {},
            wizard |-> Pos(7, 1), exit |-> NoPos]
      [] id = 9 ->
           [floor |-> Corridor(1, 4) \cup {Pos(1, 2)}, entrance |-> Pos(1, 1),
            enemies |-> << Enemy(1, "GOBLIN", 4, 1, 30, 8) >>,
            items |-> {}, hazards |-> {},
            wizard |-> Pos(2, 1), exit |-> Pos(1, 2)]
      [] id = 10 ->
           [floor |-> Corridor(1, 6), entrance |-> Pos(1, 1),
            enemies |-> << Enemy(1, "GOBLIN", 4, 1, 30, 8),
                           Enemy(2, "GOBLIN", 5, 1, 30, 8) >>,
            items |-> {}, hazards |-> {},
            wizard |-> NoPos, exit |-> NoPos]
      [] id = 11 ->
           [floor |-> Corridor(1, 5), entrance |-> Pos(1, 1),
            enemies |-> << >>, items |-> {}, hazards |-> {},
            wizard |-> NoPos, exit |-> NoPos]
      [] id = 15 ->
           [floor |-> {Pos(3, 1), Pos(2, 2), Pos(3, 2), Pos(4, 3), Pos(5, 3)},
            entrance |-> Pos(5, 3),
            enemies |-> << Enemy(1, "GOBLIN", 3, 1, 30, 8),
                           Enemy(2, "GOBLIN", 2, 2, 30, 8) >>,
            items |-> {}, hazards |-> {},
            wizard |-> NoPos, exit |-> NoPos]
      [] id = 14 ->
           [floor |-> Corridor(0, 2), entrance |-> Pos(1, 1),
            enemies |-> << >>, items |-> {}, hazards |-> {},
            wizard |-> NoPos, exit |-> NoPos]
      [] id = 13 ->
           [floor |-> Corridor(1, 3), entrance |-> Pos(1, 1),
            enemies |-> << >>,
            items |-> {Item("POTION", 3, 1)},
            hazards |-> {Item("SPIKES", 2, 1), Item("PIT", 3, 1)},
            wizard |-> NoPos, exit |-> NoPos]
      [] id = 12 ->
           [floor |-> Corridor(1, 3) \cup {Pos(2, 3)}, entrance |-> Pos(1, 1),
            enemies |-> << Enemy(1, "GOBLIN", 2, 3, 30, 8) >>,
            items |-> {Item("BOMB", 2, 1), Item("BOMB", 3, 1)}, hazards |-> {},
            wizard |-> NoPos, exit |-> NoPos]
      [] OTHER ->
           [floor |-> Corridor(1, 4), entrance |-> Pos(1, 1),
            enemies |-> << >>,
            items |-> {Item("GOLD", 2, 1), Item("BOMB", 3, 1)},
            hazards |-> {},
            wizard |-> NoPos, exit |-> Pos(4, 1)]

\* the altars of a generated dungeon (gameState.altars)
Altars(id) == IF id = 11 THEN {Pos(2, 1)} ELSE {}

MapWidth == VIEWPORT_WIDTH * WORLD_SCREENS_W
MapHeight == VIEWPORT_HEIGHT * WORLD_SCREENS_H
InMap(x, y) == x >= 0 /\ x < MapWidth /\ y >= 0 /\ y < MapHeight

\* engine A: map[y]?.[x] === 1 (a tile outside the array is not a wall)
IsWallA(map, x, y) == InMap(x, y) /\ Pos(x, y) \notin Layout(map).floor

ScreenOf(x, y) == Pos(x \div VIEWPORT_WIDTH, y \div VIEWPORT_HEIGHT)

\* the dungeon generateDungeon(level) returns: layout plus the starting player
DungeonState(level, map) ==
    LET d == Layout(map) IN
    [map |-> map,
     player |-> [initialPlayer EXCEPT !.x = d.entrance.x, !.y = d.entrance.y],
     enemies |-> d.enemies, bombs |-> << >>, activeBlasts |-> {},
     pickedUpItems |-> {}, level |-> level, camera |-> Pos(0, 0)]

\* ------------------------------------------------------------------- state
VARIABLES
    engine,          \* "A" (part_000) or "B" (part_001)
    gameState,       \* React state gameState
    isGameOver, isPaused, isLevelingUp, isShopping, isTransitioning,
    isInspecting,    \* React state isInspecting
    inspectedEnemy,  \* React state inspectedEnemy (NoInspection when null)
    lookups,         \* getEnemyDescription calls that have not settled yet
    animatingRef,    \* animatingRef.current, the input lock
    arrowProjectile, \* React state arrowProjectile (NoArrow when null)
    timers,          \* pending setTimeout callbacks, earliest first
    games,           \* newGame calls so far (bounds the run)
    budget,          \* inputs the player will still make: arrows to fire,
                     \* pauses, enemies to inspect
    fx               \* what the last task did (sounds played, handler taken)

inspectVars == << isInspecting, inspectedEnemy, lookups >>

vars == << engine, gameState, isGameOver, isPaused, isLevelingUp, isShopping,
           isTransitioning, inspectVars, animatingRef, arrowProjectile, timers,
           games, budget, fx >>

NoInspection == [visible |-> FALSE]

NoArrow == [visible |-> FALSE]

\* turns: processTurn calls; deaths: setIsGameOver(true) calls; ticks: poison
\* ticks; detonated: the bombs that went off; xpGains, prompts: the XP
\* handleEnemyDefeated added and the level-up prompts it opened; op: the input
\* handler that ran and the branch it took ("none" for a timer callback);
\* arrow: what became of the arrow in this task ("wall", "hit", "flies");
\* item: the shop item asked for; to: the tile a step was committed to;
\* enemyTurns: the player's hp at the start of each processEnemyTurn run;
\* unpicked: the keys a replaced state has taken out of pickedUpItems
NoFx == [turns |-> 0, deaths |-> 0, ticks |-> 0, detonated |-> << >>,
         xpGains |-> << >>, prompts |-> 0, op |-> "none", arrow |-> "none",
         item |-> "none", to |-> NoPos, enemyTurns |-> << >>, unpicked |-> {}]

Fx(op) == [NoFx EXCEPT !.op = op]

\* ------------------------------------------------------------------ timers
\* A pending setTimeout callback: kind, remaining delay in ms, captured data
\* (old records that the game has been restarted since it was scheduled).
Timer(kind, rem, data) == [kind |-> kind, rem |-> rem, data |-> data, old |-> FALSE]
NoData == [none |-> TRUE]

\* setTimeout: the callback runs after every pending one that is due no later
RECURSIVE AddTimer(_, _)
AddTimer(ts, t) ==
    IF ts = << >> \/ Head(ts).rem > t.rem THEN << t >> \o ts
    ELSE << Head(ts) >> \o AddTimer(Tail(ts), t)

\* the pending callbacks once the earliest has run and its delay has elapsed
AfterFire(ts) ==
    [i \in 1..(Len(ts) - 1) |-> [ts[i + 1] EXCEPT !.rem = @ - ts[1].rem]]

\* ------------------------------------------------- engine A: turn resolution
DirDelta(direction) ==
    CASE direction = "ArrowUp" -> Pos(0, -1)
      [] direction = "ArrowDown" -> Pos(0, 1)
      [] direction = "ArrowLeft" -> Pos(-1, 0)
      [] direction = "ArrowRight" -> Pos(1, 0)

\* processTurn, "Poison Tick"
PoisonTickA(p) ==
    IF ~p.isPoisoned THEN p
    ELSE IF p.poisonStepCounter + 1 >= POISON_TICK_STEPS
         THEN [p EXCEPT !.poisonStepCounter = 0, !.hp = @ - POISON_DAMAGE]
         ELSE [p EXCEPT !.poisonStepCounter = @ + 1]

PoisonTicksNow(p) == p.isPoisoned /\ p.poisonStepCounter + 1 >= POISON_TICK_STEPS

\* prev.bombs.map(b => ({ ...b, stepsRemaining: b.stepsRemaining - 1 }));
\* age counts the turn resolutions a bomb has been through
TickBomb(b) == [b EXCEPT !.stepsRemaining = @ - 1, !.age = @ + 1]

Explodes(b) == b.stepsRemaining <= 0

Arms == {Pos(1, 0), Pos(-1, 0), Pos(0, 1), Pos(0, -1)}

\* (a plus whose arms run their full length through walls)
C27_ThroughWalls(map, b) ==
    {Pos(b.x, b.y)} \cup
    {Pos(b.x + a[1].x * a[2], b.y + a[1].y * a[2]) : a \in Arms \X (1..BOMB_RANGE)}

\* the "plus" of one bomb: each arm stops before the first wall
BlastA(map, b) ==
    {Pos(b.x, b.y)} \cup
    {Pos(b.x + dj[1].x * dj[2], b.y + dj[1].y * dj[2]) :
        dj \in {a \in Arms \X (1..BOMB_RANGE) :
                  \A k \in 1..a[2] :
                      ~IsWallA(map, b.x + a[1].x * k, b.y + a[1].y * k)}}

SeqToSet(q) == {q[i] : i \in DOMAIN q}
At(e, pos) == e.x = pos.x /\ e.y = pos.y
FindAt(set, pos) == {i \in set : At(i, pos)}

\* (a pickup that does not consult the picked-up set)
C7_PickedIgnored(picked, items, pos) == items # {}

\* itemAtPos && !newPickedUpItems.has(itemKey): a pickup is due (both engines)
NotYetPicked(picked, items, pos) == items # {} /\ pos \notin picked

\* processTurn, "Interaction Logic": the item on the tile, once per position
PickUpA(p, item, level) ==
    CASE item.type = "POTION" ->
           IF p.hp < p.maxHp THEN [p EXCEPT !.hp = Min(p.maxHp, p.hp + 20)]
           ELSE [p EXCEPT !.potions = Min(3, p.potions + 1)]
      [] item.type = "GOLD" -> [p EXCEPT !.gold = @ + 5 + level]
      [] item.type = "ARROWS" -> [p EXCEPT !.arrows = Min(p.maxArrows, p.arrows + 3)]
      [] item.type = "BOMB" -> [p EXCEPT !.bombs = Min(p.maxBombs, p.bombs + 1)]
      [] item.type = "ANTIDOTE" -> [p EXCEPT !.antidotes = Min(3, p.antidotes + 1)]

\* processTurn, the hazard on the tile
HazardA(p, hazard, level) ==
    CASE hazard.type = "PIT" -> [p EXCEPT !.hp = 0]
      [] hazard.type = "SPIKES" -> [p EXCEPT !.hp = @ - (5 + level)]
      [] hazard.type = "FIRE" -> [p EXCEPT !.hp = @ - (8 + level)]

\* (a request that is served whatever the count)
C40_AlwaysInStock(count) == TRUE

\* the count test of a consumable's handler: player.bombs <= 0 (part_000,
\* line 546), potions <= 0 (552), antidotes <= 0 (559), arrows <= 0 (503),
\* and the > 0 tests of part_001 (lines 206, 220, 231, 245)
InStock(count) == count > 0

\* (a resolution that starts from the blast tiles still on display)
C33_BlastsKept(prev) == prev.activeBlasts

\* let newActiveBlasts: Position[] = [] (line 316)
NewActiveBlasts(prev) == {}

\* the updater of processTurn(newPlayerPos) applied to prev: the next state
\* and what the updater decided (kills are handed to handleEnemyDefeated)
ProcessTurnA(prev, newPos) ==
    LET d == Layout(prev.map)
        p0 == [prev.player EXCEPT !.x = newPos.x, !.y = newPos.y]
        p1 == PoisonTickA(p0)
        ticked == [i \in DOMAIN prev.bombs |-> TickBomb(prev.bombs[i])]
        exploding == SelectSeq(ticked, Explodes)
        newBombs == SelectSeq(ticked, LAMBDA b : ~Explodes(b))
        blasts == NewActiveBlasts(prev) \cup
                  UNION {BlastA(prev.map, b) : b \in SeqToSet(exploding)}
        bombDamage == 50 + p1.bombDamageBonus
        IsBlasted(e) == exploding # << >> /\ e.hp > 0 /\ Pos(e.x, e.y) \in blasts
        newEnemies == [i \in DOMAIN prev.enemies |->
                         IF IsBlasted(prev.enemies[i])
                         THEN [prev.enemies[i] EXCEPT !.hp = @ - bombDamage]
                         ELSE prev.enemies[i]]
        kills == SelectSeq(prev.enemies,
                           LAMBDA e : IsBlasted(e) /\ e.hp - bombDamage <= 0)
        p2 == IF exploding # << >> /\ Pos(p1.x, p1.y) \in blasts
              THEN [p1 EXCEPT !.hp = @ - bombDamage] ELSE p1
        atWizard == d.wizard = newPos
        atExit == ~atWizard /\ d.exit = newPos
        items == FindAt(d.items, newPos)
        hazards == FindAt(d.hazards, newPos)
        fresh == ~atWizard /\ ~atExit /\ NotYetPicked(prev.pickedUpItems, items, newPos)
        p3 == IF fresh THEN PickUpA(p2, CHOOSE i \in items : TRUE, prev.level) ELSE p2
        p4 == IF ~atWizard /\ ~atExit /\ hazards # {}
              THEN HazardA(p3, CHOOSE h \in hazards : TRUE, prev.level) ELSE p3
        dies == p4.hp <= 0 /\ prev.player.hp > 0
        p5 == IF dies THEN [p4 EXCEPT !.hp = 0] ELSE p4
    IN  [state |-> [prev EXCEPT !.player = p5, !.bombs = newBombs,
                                !.enemies = newEnemies,
                                !.pickedUpItems = IF fresh THEN @ \cup {newPos} ELSE @,
                                !.activeBlasts = blasts],
         kills |-> kills, detonated |-> exploding,
         ticked |-> PoisonTicksNow(p0),
         shop |-> atWizard, exit |-> atExit, dies |-> dies,
         enemiesMove |-> ~atWizard /\ ~atExit /\ ~dies]

\* handleEnemyDefeated(enemy) for each kill, in call order (both engines):
\* the queued updaters add the XP and open the level-up prompt; level is the
\* level the calling closure saw
RECURSIVE Defeats(_, _, _)
Defeats(state, kills, level) ==
    IF kills = << >> THEN [state |-> state, prompts |-> 0, gains |-> << >>]
    ELSE LET g == XpGained(Head(kills).type, level)
             p == [state.player EXCEPT !.xp = @ + g]
             rest == Defeats([state EXCEPT !.player = p], Tail(kills), level)
         IN  [state |-> rest.state,
              prompts |-> rest.prompts + (IF p.xp >= p.xpToNextLevel THEN 1 ELSE 0),
              gains |-> << g >> \o rest.gains]

\* ------------------------------------------------------ engine A: enemy turn
\* Math.random() draws: bounded sets of the values the expressions can yield
RandMelee == {0, 4}       \* Math.floor(Math.random() * 5)
RandEnemy == {0, 2}       \* Math.floor(Math.random() * 3)
EnemyDraws == [tie : BOOLEAN, bonus : RandEnemy]

\* where the enemy wants to go: the larger axis, a coin on a diagonal tie
EnemyTargetA(e, p, tie) ==
    LET dx == p.x - e.x
        dy == p.y - e.y
    IN  IF Abs(dx) > Abs(dy) THEN Pos(e.x + Sign(dx), e.y)
        ELSE IF Abs(dy) > Abs(dx) THEN Pos(e.x, e.y + Sign(dy))
        ELSE IF dx # 0 THEN (IF tie THEN Pos(e.x + Sign(dx), e.y)
                             ELSE Pos(e.x, e.y + Sign(dy)))
        ELSE Pos(e.x, e.y)

ActiveA(e, p) == e.hp > 0 /\ ScreenOf(p.x, p.y) = ScreenOf(e.x, e.y)

AttacksA(e, p, tie) == ActiveA(e, p) /\ EnemyTargetA(e, p, tie) = Pos(p.x, p.y)

EnemyAfterA(e, prev, tie) ==
    LET t == EnemyTargetA(e, prev.player, tie) IN
    IF ~ActiveA(e, prev.player) \/ AttacksA(e, prev.player, tie) THEN e
    ELSE IF /\ ~IsWallA(prev.map, t.x, t.y)
            /\ ~\E o \in SeqToSet(prev.enemies) : o.id # e.id /\ At(o, t) /\ o.hp > 0
         THEN [e EXCEPT !.x = t.x, !.y = t.y]
         ELSE e

\* one enemy's attack on the player being accumulated (no clamp in the code)
EnemyHitA(acc, e, bonus) ==
    LET hit == [acc EXCEPT !.hp = @ - (e.attack + bonus)] IN
    IF e.type = "SPIDER" /\ ~hit.isPoisoned
    THEN [hit EXCEPT !.isPoisoned = TRUE, !.poisonStepCounter = 0]
    ELSE hit

RECURSIVE PlayerAfterA(_, _, _, _)
PlayerAfterA(acc, prev, rnd, i) ==
    IF i > Len(prev.enemies) THEN acc
    ELSE PlayerAfterA(
           IF AttacksA(prev.enemies[i], prev.player, rnd[i].tie)
           THEN EnemyHitA(acc, prev.enemies[i], rnd[i].bonus) ELSE acc,
           prev, rnd, i + 1)

\* the draws an enemy turn can consume: a draw the turn does not read (the
\* coin off a diagonal, the bonus of an enemy that does not attack) is fixed
DrawsOf(e, p) ==
    LET diagonal == Abs(p.x - e.x) = Abs(p.y - e.y) /\ p.x # e.x
    IN  {d \in EnemyDraws :
           /\ (d.tie => ActiveA(e, p) /\ diagonal)
           /\ (d.bonus # 0 => AttacksA(e, p, d.tie))}

RECURSIVE DrawsFrom(_, _)
DrawsFrom(prev, i) ==
    IF i > Len(prev.enemies) THEN {<< >>}
    ELSE {<< d >> \o rest : d \in DrawsOf(prev.enemies[i], prev.player),
                            rest \in DrawsFrom(prev, i + 1)}

DrawsFor(prev) == DrawsFrom(prev, 1)

\* the updater of processEnemyTurn applied to prev
ProcessEnemyTurnA(prev, rnd) ==
    LET newPlayer == PlayerAfterA(prev.player, prev, rnd, 1) IN
    [state |-> [prev EXCEPT
                  !.player = newPlayer,
                  !.enemies = [i \in DOMAIN prev.enemies |->
                                 EnemyAfterA(prev.enemies[i], prev, rnd[i].tie)]],
     dies |-> newPlayer.hp <= 0 /\ prev.player.hp > 0]

\* ------------------------------------------------------ engine A: newGame
\* newGame(level, playerOverride): { ...dungeon.player, ...playerOverride }
NewGameState(level, map, override) ==
    [DungeonState(level, map) EXCEPT !.player = Spread(@, override)]

\* restartGame's retainedPlayer: the class defaults are spread last but two
RetainedOnRestart(p) ==
    Spread(Spread([playerClass |-> p.playerClass, level |-> p.level,
                   maxHp |-> p.maxHp, attack |-> p.attack,
                   gold |-> p.gold \div 2, xp |-> 0],
                  ClassStats(p.playerClass)),
           [corruption |-> p.corruption, activeAugments |-> p.activeAugments])

\* handleNextLevel's retainedPlayer
RetainedOnNextLevel(p) == [p EXCEPT !.hp = p.maxHp]

\* ------------------------------------------------------- engine A: handlers
\* handleMove's own guard (line 447)
MoveLockedA ==
    \/ isGameOver \/ isInspecting \/ animatingRef \/ arrowProjectile # NoArrow
    \/ isPaused \/ isLevelingUp \/ isShopping \/ isTransitioning

\* the two input surfaces of engine A: handleKeyDown (line 566) and the
\* on-screen pads, which are rendered only while no modal is open (line 613)
KeyboardOpenA ==
    ~isGameOver /\ ~isPaused /\ ~isLevelingUp /\ ~isShopping /\ ~isTransitioning
PadsOpenA ==
    /\ ~isGameOver /\ inspectedEnemy = NoInspection
    /\ ~isPaused /\ ~isLevelingUp /\ ~isShopping
SurfaceOpenA == KeyboardOpenA \/ PadsOpenA

WithDirection(state, direction) ==
    [state EXCEPT !.player.lastMoveDirection = direction]

FirstLivingAt(enemies, pos) ==
    LET hits == {i \in DOMAIN enemies : At(enemies[i], pos) /\ enemies[i].hp > 0}
    IN  IF hits = {} THEN 0 ELSE CHOOSE i \in hits : \A j \in hits : i <= j

\* handleMove, a wall: only the aim is written
BumpA(direction) ==
    /\ gameState' = WithDirection(gameState, direction)
    /\ fx' = Fx("bump")
    /\ UNCHANGED << isGameOver, isLevelingUp, isShopping, isTransitioning,
                    animatingRef, timers >>

\* handleMove, the destination lies on another screen (lines 455-466)
CrossScreenA(direction, nextX, nextY) ==
    LET nextScreen == ScreenOf(nextX, nextY)
        inWorld == /\ nextScreen.x >= 0 /\ nextScreen.x < WORLD_SCREENS_W
                   /\ nextScreen.y >= 0 /\ nextScreen.y < WORLD_SCREENS_H
    IN  /\ gameState' = WithDirection(gameState, direction)
        /\ isTransitioning' = (inWorld \/ isTransitioning)
        /\ timers' = IF inWorld
                     THEN AddTimer(timers, Timer("screenMove", 300,
                              [x |-> nextX, y |-> nextY, camera |-> nextScreen]))
                     ELSE timers
        /\ fx' = Fx("cross")
        /\ UNCHANGED << isGameOver, isLevelingUp, isShopping, animatingRef >>

\* handleMove, a living enemy on the destination tile (lines 468-497): the
\* player and enemy lists written back are copies of the rendered state
MeleeA(direction, idx, rndP, rndE) ==
    LET p == gameState.player
        foe == gameState.enemies[idx]
        playerDamage == p.attack + p.meleeDamageBonus + rndP
        newEnemyHp == foe.hp - playerDamage
        hurt == IF newEnemyHp > 0 THEN [p EXCEPT !.hp = @ - (foe.attack + rndE)] ELSE p
    IN  \E newPlayer \in {IF hurt.hp <= 0 THEN [hurt EXCEPT !.hp = 0] ELSE hurt} :
        \E queued \in {Defeats(WithDirection(gameState, direction),
                                IF newEnemyHp > 0 THEN << >> ELSE << foe >>,
                                gameState.level)} :
            /\ gameState' = [queued.state EXCEPT
                               !.player = newPlayer,
                               !.enemies = [gameState.enemies EXCEPT ![idx].hp = newEnemyHp]]
            /\ isGameOver' = (hurt.hp <= 0 \/ isGameOver)
            /\ isLevelingUp' = (queued.prompts > 0 \/ isLevelingUp)
            /\ animatingRef' = TRUE
            /\ timers' = AddTimer(timers, Timer("afterMelee", 150,
                                               [alive |-> newPlayer.hp > 0]))
            /\ fx' = [Fx("melee") EXCEPT !.deaths = IF hurt.hp <= 0 THEN 1 ELSE 0,
                                  !.xpGains = queued.gains, !.prompts = queued.prompts]
            /\ UNCHANGED << isShopping, isTransitioning >>

\* handleMove, a free tile: processTurn (lines 307-444)
StepA(direction, nextX, nextY) ==
    \E turn \in {ProcessTurnA(WithDirection(gameState, direction), Pos(nextX, nextY))} :
    \E queued \in {Defeats(turn.state, turn.kills, gameState.level)} :
        /\ gameState' = queued.state
        /\ isGameOver' = (turn.dies \/ isGameOver)
        /\ isShopping' = (turn.shop \/ isShopping)
        /\ isLevelingUp' = (queued.prompts > 0 \/ isLevelingUp)
        /\ animatingRef' = TRUE
        /\ timers' =
             LET t1 == AddTimer(timers, Timer("afterTurn", 150,
                          [exit |-> turn.exit, enemiesMove |-> turn.enemiesMove,
                           level |-> gameState.level,
                           player |-> IF turn.exit THEN gameState.player ELSE NoData]))
             IN  IF turn.state.activeBlasts # {}
                 THEN AddTimer(t1, Timer("clearBlasts", 200, NoData)) ELSE t1
        /\ fx' = [Fx("step") EXCEPT
                    !.to = Pos(nextX, nextY),
                    !.turns = 1, !.deaths = IF turn.dies THEN 1 ELSE 0,
                    !.ticks = IF turn.ticked THEN 1 ELSE 0,
                    !.detonated = turn.detonated,
                    !.xpGains = queued.gains, !.prompts = queued.prompts]
        /\ UNCHANGED isTransitioning

HandleMoveA(direction) ==
    /\ engine = "A"
    /\ ~MoveLockedA
    /\ LET nextX == gameState.player.x + DirDelta(direction).x
           nextY == gameState.player.y + DirDelta(direction).y
           idx == FirstLivingAt(gameState.enemies, Pos(nextX, nextY))
       IN  IF IsWallA(gameState.map, nextX, nextY) THEN BumpA(direction)
           ELSE IF gameState.camera # ScreenOf(nextX, nextY)
                THEN CrossScreenA(direction, nextX, nextY)
           ELSE IF idx # 0
                THEN \E rndP \in RandMelee : \E rndE \in RandEnemy :
                        MeleeA(direction, idx, rndP, rndE)
           ELSE StepA(direction, nextX, nextY)
    /\ UNCHANGED << engine, isPaused, arrowProjectile, games, budget,
                    inspectVars >>

\* processEnemyTurn (lines 251-305), run from a timer callback
EnemyTurnA(rest) ==
    \E rnd \in DrawsFor(gameState) :
    \E turn \in {ProcessEnemyTurnA(gameState, rnd)} :
        /\ gameState' = turn.state
        /\ isGameOver' = (turn.dies \/ isGameOver)
        /\ timers' = AddTimer(rest, Timer("unlock", 150, NoData))
        /\ fx' = [NoFx EXCEPT !.deaths = IF turn.dies THEN 1 ELSE 0,
                              !.enemyTurns = << gameState.player.hp >>]
        /\ UNCHANGED << animatingRef, isTransitioning >>

Unlock(rest) ==
    /\ animatingRef' = FALSE
    /\ timers' = rest
    /\ fx' = NoFx
    /\ UNCHANGED << gameState, isGameOver, isTransitioning >>

\* handleNextLevel (lines 156-166), called from the closure of an old render
HandleNextLevelA(rest, data) ==
    /\ isTransitioning' = TRUE
    /\ timers' = AddTimer(rest, [Timer("nextLevel", 400,
                     [level |-> data.level, player |-> data.player])
                         EXCEPT !.old = Head(timers).old])
    /\ fx' = NoFx
    /\ UNCHANGED << gameState, isGameOver, animatingRef >>

\* the 150 ms callback of processTurn (lines 434-438)
TimerAfterTurnA ==
    /\ engine = "A"
    /\ timers # << >> /\ Head(timers).kind = "afterTurn"
    /\ LET data == Head(timers).data
           rest == AfterFire(timers)
       IN  IF data.exit THEN HandleNextLevelA(rest, data)
           ELSE IF data.enemiesMove THEN EnemyTurnA(rest)
           ELSE Unlock(rest)
    /\ UNCHANGED << engine, isPaused, isLevelingUp, isShopping, arrowProjectile, games, budget,
                    inspectVars >>

\* the 150 ms callback of a melee exchange (lines 494-497)
TimerAfterMeleeA ==
    /\ engine = "A"
    /\ timers # << >> /\ Head(timers).kind = "afterMelee"
    /\ IF Head(timers).data.alive THEN EnemyTurnA(AfterFire(timers))
       ELSE Unlock(AfterFire(timers))
    /\ UNCHANGED << engine, isPaused, isLevelingUp, isShopping, arrowProjectile, games, budget,
                    inspectVars >>

\* the 150 ms callback of processEnemyTurn (line 304)
TimerUnlockA ==
    /\ engine = "A"
    /\ timers # << >> /\ Head(timers).kind = "unlock"
    /\ Unlock(AfterFire(timers))
    /\ UNCHANGED << engine, isPaused, isLevelingUp, isShopping, arrowProjectile, games, budget,
                    inspectVars >>

\* the arrow effect of engine B (part_001, lines 477-522) runs again whenever arrowProjectile or
\* gameState.map changes: its cleanup clears the interval and releases the
\* lock, and the new closure captures the state just rendered
WithoutArrowTick(ts) == SelectSeq(ts, LAMBDA t : t.kind # "arrowTick")

RearmArrowB(ts, rendered) ==
    AddTimer(WithoutArrowTick(ts), Timer("arrowTick", 50, [state |-> rendered]))

\* a new gameState.map is rendered (newGame): in engine B the arrow effect of
\* an arrow in flight runs again (part_001, line 522)
NewMapRenderedB(ts) ==
    IF engine = "B" /\ arrowProjectile # NoArrow
    THEN /\ animatingRef' = FALSE
         /\ timers' = RearmArrowB(ts, gameState')
    ELSE /\ timers' = ts
         /\ UNCHANGED animatingRef

\* setTimeout(() => setGameState(p => ({...p, activeBlasts: []})), 200)
TimerClearBlasts ==
    /\ timers # << >> /\ Head(timers).kind = "clearBlasts"
    /\ gameState' = [gameState EXCEPT !.activeBlasts = {}]
    /\ timers' = AfterFire(timers)
    /\ fx' = NoFx
    /\ UNCHANGED << engine, isGameOver, isPaused, isLevelingUp, isShopping,
                    isTransitioning, animatingRef, arrowProjectile, games, budget,
                    inspectVars >>

\* new games (restarts and next levels) are followed in the layouts whose
\* runs stay short; in the bomb, arrow and shop layouts of engine B a run
\* ends with its first game
SingleGame == {4, 5, 7, 9, 11}

NewGamesFollowed ==
    IF engine = "B" /\ gameState.map \in SingleGame THEN 0 ELSE MaxNewGames

\* the 400 ms callback of handleNextLevel: newGame(level + 1, retainedPlayer)
TimerNextLevel ==
    /\ timers # << >> /\ Head(timers).kind = "nextLevel"
    /\ games < NewGamesFollowed \/ Head(timers).old
    /\ Head(timers).data.level < MaxDungeonLevel
    /\ gameState' = NewGameState(Head(timers).data.level + 1, gameState.map,
                                 RetainedOnNextLevel(Head(timers).data.player))
    /\ isGameOver' = FALSE
    /\ isPaused' = FALSE
    /\ isTransitioning' = FALSE
    /\ NewMapRenderedB(AfterFire(timers))
    /\ games' = games + 1
    /\ fx' = NoFx
    /\ UNCHANGED << engine, isLevelingUp, isShopping, arrowProjectile, budget,
                    inspectVars >>

\* the 300 ms callback of a screen crossing (lines 460-463)
TimerScreenMoveA ==
    /\ engine = "A"
    /\ timers # << >> /\ Head(timers).kind = "screenMove"
    /\ gameState' = [gameState EXCEPT !.player.x = Head(timers).data.x,
                                      !.player.y = Head(timers).data.y,
                                      !.camera = Head(timers).data.camera]
    /\ isTransitioning' = FALSE
    /\ timers' = AfterFire(timers)
    /\ fx' = NoFx
    /\ UNCHANGED << engine, isGameOver, isPaused, isLevelingUp, isShopping,
                    animatingRef, arrowProjectile, games, budget,
                    inspectVars >>

\* handleDropBomb (lines 544-550)
HandleDropBombA ==
    /\ engine = "A"
    /\ SurfaceOpenA
    /\ ~(isGameOver \/ isInspecting \/ animatingRef \/ isPaused \/ isLevelingUp
         \/ isShopping \/ isTransitioning)
    /\ InStock(gameState.player.bombs)
    /\ ~\E b \in SeqToSet(gameState.bombs) : At(b, gameState.player)
    /\ gameState' = [gameState EXCEPT
                       !.player.bombs = @ - 1,
                       !.bombs = Append(@, [x |-> gameState.player.x,
                                            y |-> gameState.player.y,
                                            stepsRemaining |-> BOMB_FUSE_STEPS,
                                            age |-> 0])]
    /\ fx' = Fx("bomb")
    /\ UNCHANGED << engine, isGameOver, isPaused, isLevelingUp, isShopping,
                    isTransitioning, animatingRef, arrowProjectile, timers, games, budget,
                    inspectVars >>

\* handleUsePotion (lines 552-557)
HandleUsePotionA ==
    /\ engine = "A"
    /\ SurfaceOpenA
    /\ InStock(gameState.player.potions)
    /\ gameState.player.hp # gameState.player.maxHp
    /\ gameState' = [gameState EXCEPT
                       !.player.potions = @ - 1,
                       !.player.hp = Min(gameState.player.maxHp, @ + 50)]
    /\ fx' = Fx("potion")
    /\ UNCHANGED << engine, isGameOver, isPaused, isLevelingUp, isShopping,
                    isTransitioning, animatingRef, arrowProjectile, timers, games, budget,
                    inspectVars >>

\* handleUseAntidote (lines 559-564)
HandleUseAntidoteA ==
    /\ engine = "A"
    /\ SurfaceOpenA
    /\ InStock(gameState.player.antidotes)
    /\ gameState.player.isPoisoned
    /\ gameState' = [gameState EXCEPT !.player.antidotes = @ - 1,
                                      !.player.isPoisoned = FALSE]
    /\ fx' = Fx("antidote")
    /\ UNCHANGED << engine, isGameOver, isPaused, isLevelingUp, isShopping,
                    isTransitioning, animatingRef, arrowProjectile, timers, games, budget,
                    inspectVars >>

\* Math.floor(Math.random() * 4)
RandArrow == {0, 3}

\* Math.floor((attack + arrowDamageBonus) * 0.8) + the draw; the double 0.8
\* lies above 4/5, so the floor is that of the exact product
ArrowDamageA(p, rnd) == ((p.attack + p.arrowDamageBonus) * 8) \div 10 + rnd

Flying(x, y, direction) == [visible |-> TRUE, x |-> x, y |-> y, direction |-> direction]

\* moveArrow (lines 509-540): one step of the arrow from tile `from`.  gs is
\* the gameState the closure of handleFireArrow captured, base the state the
\* updates queued in this task apply to, rest the callbacks left pending
MoveArrowA(base, gs, from, direction, rest, op) ==
    LET x == from.x + DirDelta(direction).x
        y == from.y + DirDelta(direction).y
        idx == FirstLivingAt(gs.enemies, Pos(x, y))
    IN  IF IsWallA(gs.map, x, y)
        THEN /\ gameState' = base
             /\ arrowProjectile' = NoArrow
             /\ timers' = rest
             /\ fx' = [Fx(op) EXCEPT !.arrow = "wall"]
             /\ UNCHANGED isLevelingUp
        ELSE IF idx # 0
        THEN \E rnd \in RandArrow :
             \E hit \in {[base EXCEPT !.enemies[idx].hp =
                                         @ - ArrowDamageA(gs.player, rnd)]} :
             \E queued \in {Defeats(hit,
                                    IF hit.enemies[idx].hp <= 0
                                    THEN << hit.enemies[idx] >> ELSE << >>,
                                    gs.level)} :
                /\ gameState' = queued.state
                /\ isLevelingUp' = (queued.prompts > 0 \/ isLevelingUp)
                /\ arrowProjectile' = NoArrow
                /\ timers' = rest
                /\ fx' = [Fx(op) EXCEPT !.arrow = "hit", !.xpGains = queued.gains,
                                        !.prompts = queued.prompts]
        ELSE /\ x \in -MaxStray..(MapWidth - 1 + MaxStray)
             /\ y \in -MaxStray..(MapHeight - 1 + MaxStray)
             /\ gameState' = base
             /\ arrowProjectile' = Flying(x, y, direction)
             /\ timers' = AddTimer(rest, Timer("moveArrow", 60,
                              [x |-> x, y |-> y, direction |-> direction, state |-> gs]))
             /\ fx' = [Fx(op) EXCEPT !.arrow = "flies"]
             /\ UNCHANGED isLevelingUp

\* handleFireArrow (lines 501-542): the guard, the arrow spent and the first
\* moveArrow call
HandleFireArrowA ==
    /\ engine = "A"
    /\ ~MoveLockedA
    /\ InStock(gameState.player.arrows)
    /\ gameState.player.lastMoveDirection # NoDirection
    /\ budget.shots > 0
    /\ budget' = [budget EXCEPT !.shots = @ - 1]
    /\ MoveArrowA([gameState EXCEPT !.player.arrows = @ - 1], gameState,
                  Pos(gameState.player.x, gameState.player.y),
                  gameState.player.lastMoveDirection, timers, "fire")
    /\ UNCHANGED << engine, isGameOver, isPaused, isShopping, isTransitioning,
                    animatingRef, games,
                    inspectVars >>

\* setTimeout(moveArrow, 60): the next step of an arrow in flight
TimerMoveArrowA ==
    /\ engine = "A"
    /\ timers # << >> /\ Head(timers).kind = "moveArrow"
    /\ LET data == Head(timers).data
       IN  MoveArrowA(gameState, data.state, Pos(data.x, data.y), data.direction,
                      AfterFire(timers), "none")
    /\ UNCHANGED << engine, isGameOver, isPaused, isShopping, isTransitioning,
                    animatingRef, games, budget,
                    inspectVars >>

\* ------------------------------------------------ engine B: turn resolution
\* Engine B reads its class and enemy tables from data files that are not
\* part of the sources; the tables of constants.ts stand in for them, and
\* the spider is the enemy that can poison.  Augments, altars and stepsTaken
\* (read by an augment only) are left out.
CanPoison(type) == type = "SPIDER"

IsFloorB(map, x, y) == Pos(x, y) \in Layout(map).floor

\* handleMove's test gameState.map[y][x] === TileType.WALL (line 384): a row
\* outside the array throws and ends the handler, a column outside it reads
\* undefined, which is no wall
StoppedB(map, x, y) ==
    \/ y < 0 \/ y >= MapHeight
    \/ x >= 0 /\ x < MapWidth /\ ~IsFloorB(map, x, y)

\* the blast of one bomb: every map tile within BOMB_RANGE of it, walls too
BlastB(b) ==
    {t \in {Pos(x, y) : x \in (b.x - BOMB_RANGE_B)..(b.x + BOMB_RANGE_B),
                        y \in (b.y - BOMB_RANGE_B)..(b.y + BOMB_RANGE_B)} :
        /\ InMap(t.x, t.y)
        /\ (t.x - b.x) * (t.x - b.x) + (t.y - b.y) * (t.y - b.y)
             <= BOMB_RANGE_B * BOMB_RANGE_B}

EnemyTargetB(e, p) ==
    LET dx == p.x - e.x
        dy == p.y - e.y
    IN  IF Abs(dx) > Abs(dy) THEN Pos(e.x + Sign(dx), e.y)
        ELSE Pos(e.x, e.y + Sign(dy))

AttacksB(e, p) == EnemyTargetB(e, p) = Pos(p.x, p.y)

\* Math.random() < 0.3 for each enemy; read only by an attacking poisoner
RECURSIVE DrawsB(_, _, _)
DrawsB(enemies, p, i) ==
    IF i > Len(enemies) THEN {<< >>}
    ELSE {<< coin >> \o rest :
            coin \in IF AttacksB(enemies[i], p) /\ CanPoison(enemies[i].type)
                     THEN BOOLEAN ELSE {FALSE},
            rest \in DrawsB(enemies, p, i + 1)}

\* processEnemyTurn: the forEach over the enemies, one after the other; acc
\* holds newPlayer, newEnemies and playerTookDamage
RECURSIVE EnemyLoopB(_, _, _, _)
EnemyLoopB(acc, map, rnd, i) ==
    IF i > Len(acc.enemies) THEN acc
    ELSE LET e == acc.enemies[i]
             t == EnemyTargetB(e, acc.player)
             next ==
               IF t = Pos(acc.player.x, acc.player.y)
               THEN [acc EXCEPT !.hit = TRUE,
                                !.player.hp = @ - Max(1, e.attack),
                                !.player.isPoisoned = @ \/ (CanPoison(e.type) /\ rnd[i])]
               ELSE IF /\ IsFloorB(map, t.x, t.y)
                       /\ ~\E o \in SeqToSet(acc.enemies) : At(o, t)
                    THEN [acc EXCEPT !.enemies[i].x = t.x, !.enemies[i].y = t.y]
                    ELSE acc
         IN  EnemyLoopB(next, map, rnd, i + 1)

ProcessEnemyTurnB(currentState, rnd) ==
    LET out == EnemyLoopB([player |-> currentState.player,
                           enemies |-> currentState.enemies, hit |-> FALSE],
                          currentState.map, rnd, 1)
    IN  [state |-> [currentState EXCEPT !.player = out.player, !.enemies = out.enemies],
         deaths |-> IF out.hit /\ out.player.hp <= 0 THEN 1 ELSE 0]

\* processTurn's "Poison" section
PoisonTickB(p) ==
    IF ~p.isPoisoned THEN p
    ELSE IF p.poisonStepCounter + 1 >= POISON_TICK_STEPS
         THEN [p EXCEPT !.hp = @ - POISON_DAMAGE, !.poisonStepCounter = 0]
         ELSE [p EXCEPT !.poisonStepCounter = @ + 1]

\* processTurn(newPlayerPos) computed on the rendered state gs: the state it
\* returns, the enemies it hands to handleEnemyDefeated, the bombs that went
\* off and the setIsGameOver(true) calls it made
ProcessTurnB(gs, newPos, rnd) ==
    LET p0 == [gs.player EXCEPT !.x = newPos.x, !.y = newPos.y]
        ticked == [i \in DOMAIN gs.bombs |-> TickBomb(gs.bombs[i])]
        exploding == SelectSeq(ticked, Explodes)
        newBombs == SelectSeq(ticked, LAMBDA b : ~Explodes(b))
        blasts == UNION {BlastB(b) : b \in SeqToSet(exploding)}
        bombDamage == 20 + p0.bombDamageBonus
        InBlast(e) == Pos(e.x, e.y) \in blasts
        kills == SelectSeq(gs.enemies, InBlast)
        p1 == IF InBlast(p0) THEN [p0 EXCEPT !.hp = @ - bombDamage] ELSE p0
        blown == IF InBlast(p0) /\ p1.hp <= 0 THEN 1 ELSE 0
        p2 == PoisonTickB(p1)
        succumbed == IF PoisonTicksNow(p1) /\ p2.hp <= 0 THEN 1 ELSE 0
        turn == ProcessEnemyTurnB(
                  [gs EXCEPT !.player = p2, !.bombs = newBombs,
                             !.enemies = SelectSeq(gs.enemies, LAMBDA e : ~InBlast(e)),
                             !.activeBlasts = blasts],
                  rnd)
    IN  [state |-> turn.state, kills |-> kills, detonated |-> exploding,
         ticked |-> PoisonTicksNow(p1), foeHp |-> p2.hp,
         deaths |-> blown + succumbed + turn.deaths]

\* the draws one processTurn call can read
DrawsForB(gs, newPos) ==
    LET blasts == UNION {BlastB(b) : b \in {c \in SeqToSet(gs.bombs) : c.stepsRemaining <= 1}}
    IN  DrawsB(SelectSeq(gs.enemies, LAMBDA e : Pos(e.x, e.y) \notin blasts),
               [gs.player EXCEPT !.x = newPos.x, !.y = newPos.y], 1)

\* ------------------------------------------------------ engine B: handlers
\* the keyboard handler's guard (line 67); the pads are rendered under the
\* modals, input through a pad while a modal is open is not modelled
SurfaceOpenB == ~isGameOver /\ ~isLevelingUp /\ ~isShopping

\* handleMove, the item switch (lines 414-420)
PickUpB(p, item) ==
    CASE item.type = "GOLD" -> [p EXCEPT !.gold = @ + 10]
      [] item.type = "POTION" -> [p EXCEPT !.potions = Min(3, p.potions + 1)]
      [] item.type = "ARROWS" -> [p EXCEPT !.arrows = Min(p.maxArrows, p.arrows + 3)]
      [] item.type = "BOMB" -> [p EXCEPT !.bombs = Min(p.maxBombs, p.bombs + 1)]
      [] item.type = "ANTIDOTE" -> [p EXCEPT !.antidotes = Min(3, p.antidotes + 1)]

\* ALTAR_EFFECTS (its stat effects): the stat raised, by how much, and the
\* corruption the effect names (0 when it names none)
AltarEffects ==
    {[stat |-> "attack", value |-> 2, corruption |-> 0],
     [stat |-> "maxHp", value |-> 10, corruption |-> 50]}

\* handleMove, the altar on the destination tile (lines 429-461)
AltarB(p, effect) ==
    LET raised == IF effect.stat = "maxHp"
                  THEN [p EXCEPT !.maxHp = Max(10, @ + effect.value),
                                 !.hp = Max(10, p.maxHp + effect.value)]
                  ELSE [p EXCEPT !.attack = Max(1, @ + effect.value)]
        corruptionGained == IF effect.corruption # 0 THEN effect.corruption ELSE 10
    IN  [raised EXCEPT !.corruption = Min(100, @ + corruptionGained)]

FirstAt(enemies, pos) ==
    LET hits == {i \in DOMAIN enemies : At(enemies[i], pos)}
    IN  IF hits = {} THEN 0 ELSE CHOOSE i \in hits : \A j \in hits : i <= j

\* handleMove, an enemy on the destination tile (lines 385-400): the state
\* written last replaces what the queued handleEnemyDefeated updaters wrote
MeleeB(idx, rnd) ==
    LET foe == gameState.enemies[idx]
        damage == gameState.player.attack + gameState.player.meleeDamageBonus
        newHp == foe.hp - damage
    IN  \E turn \in {ProcessTurnB(gameState,
                                   Pos(gameState.player.x, gameState.player.y), rnd)} :
        \E queued \in {Defeats(gameState,
                                (IF newHp <= 0 THEN << foe >> ELSE << >>) \o turn.kills,
                                gameState.level)} :
            /\ gameState' =
                 [turn.state EXCEPT !.enemies =
                    IF newHp <= 0
                    THEN SelectSeq(turn.state.enemies, LAMBDA e : e.id # foe.id)
                    ELSE [gameState.enemies EXCEPT ![idx].hp = newHp]]
            /\ isGameOver' = (turn.deaths > 0 \/ isGameOver)
            /\ isLevelingUp' = (queued.prompts > 0 \/ isLevelingUp)
            /\ fx' = [Fx("melee") EXCEPT
                        !.turns = 1, !.deaths = turn.deaths,
                        !.enemyTurns = << turn.foeHp >>,
                        !.ticks = IF turn.ticked THEN 1 ELSE 0,
                        !.detonated = turn.detonated,
                        !.xpGains = queued.gains, !.prompts = queued.prompts]
            /\ UNCHANGED << isShopping, isTransitioning, timers >>

\* handleMove, a free tile (lines 401-474).  On the exit tile the state
\* processTurn returned is dropped: the bombs keep their fuses although the
\* resolution (one more for their age) has run
StepB(direction, x, y, rnd) ==
    \E turn \in {ProcessTurnB(gameState, Pos(x, y), rnd)} :
    \E queued \in {Defeats(gameState, turn.kills, gameState.level)} :
    \E items \in {FindAt(Layout(gameState.map).items, Pos(x, y))} :
    \E effect \in IF Pos(x, y) \in Altars(gameState.map) THEN AltarEffects
                  ELSE {[stat |-> "none"]} :
        LET fresh == NotYetPicked(turn.state.pickedUpItems, items, Pos(x, y))
            picked == IF fresh THEN turn.state.pickedUpItems \cup {Pos(x, y)}
                      ELSE turn.state.pickedUpItems
            moved == [turn.state.player EXCEPT !.lastMoveDirection = direction]
            atExit == Layout(gameState.map).exit = Pos(x, y)
            atAltar == Pos(x, y) \in Altars(gameState.map)
            Blessed(p) == IF atAltar THEN AltarB(p, effect) ELSE p
        IN  /\ atAltar => budget.prayers > 0
            /\ budget' = IF atAltar THEN [budget EXCEPT !.prayers = @ - 1] ELSE budget
            /\ gameState' =
                 IF atExit
                 THEN [queued.state EXCEPT
                         !.pickedUpItems = picked,
                         !.bombs = [i \in DOMAIN @ |-> [@[i] EXCEPT !.age = @ + 1]]]
                 ELSE [turn.state EXCEPT
                         !.player = Blessed(IF fresh
                                            THEN PickUpB(moved, CHOOSE i \in items : TRUE)
                                            ELSE moved),
                         !.pickedUpItems = picked,
                         !.camera = ScreenOf(x, y)]
            /\ isGameOver' = (turn.deaths > 0 \/ isGameOver)
            /\ isShopping' = (Layout(gameState.map).wizard = Pos(x, y) \/ isShopping)
            /\ isLevelingUp' = (queued.prompts > 0 \/ isLevelingUp)
            /\ isTransitioning' = (atExit \/ isTransitioning)
            /\ timers' = IF atExit
                         THEN AddTimer(timers, Timer("nextLevel", 400,
                                  [level |-> gameState.level, player |-> gameState.player]))
                         ELSE AddTimer(timers, Timer("clearBlasts", 100, NoData))
            /\ fx' = [Fx("step") EXCEPT
                        !.to = Pos(x, y),
                        !.turns = 1, !.deaths = turn.deaths,
                        !.enemyTurns = << turn.foeHp >>,
                        !.ticks = IF turn.ticked THEN 1 ELSE 0,
                        !.detonated = turn.detonated,
                        !.xpGains = queued.gains, !.prompts = queued.prompts]

HandleMoveB(direction) ==
    /\ engine = "B"
    /\ SurfaceOpenB
    /\ ~(animatingRef \/ isPaused)
    /\ Len(timers) < MaxTimers
    /\ gameState.player.x + DirDelta(direction).x \in -MaxStray..(MapWidth - 1 + MaxStray)
    /\ LET x == gameState.player.x + DirDelta(direction).x
           y == gameState.player.y + DirDelta(direction).y
           idx == FirstAt(gameState.enemies, Pos(x, y))
       IN  IF StoppedB(gameState.map, x, y)
           THEN /\ fx' = Fx("bump")
                /\ UNCHANGED << gameState, isGameOver, isLevelingUp, isShopping,
                                isTransitioning, timers, budget >>
           ELSE IF idx # 0
                THEN /\ \E rnd \in DrawsForB(gameState,
                                              Pos(gameState.player.x, gameState.player.y)) :
                           MeleeB(idx, rnd)
                     /\ UNCHANGED budget
                ELSE \E rnd \in DrawsForB(gameState, Pos(x, y)) :
                        StepB(direction, x, y, rnd)
    /\ UNCHANGED << engine, isPaused, animatingRef, arrowProjectile, games,
                    inspectVars >>

\* placeBomb (lines 229-241)
PlaceBombB ==
    /\ engine = "B"
    /\ SurfaceOpenB
    /\ InStock(gameState.player.bombs)
    /\ gameState' = [gameState EXCEPT
                       !.player.bombs = @ - 1,
                       !.bombs = Append(@, [x |-> gameState.player.x,
                                            y |-> gameState.player.y,
                                            stepsRemaining |-> BOMB_FUSE_STEPS_B,
                                            age |-> 0])]
    /\ fx' = Fx("bomb")
    /\ UNCHANGED << engine, isGameOver, isPaused, isLevelingUp, isShopping,
                    isTransitioning, animatingRef, arrowProjectile, timers, games, budget,
                    inspectVars >>

\* usePotion (lines 204-217)
UsePotionB ==
    /\ engine = "B"
    /\ SurfaceOpenB
    /\ InStock(gameState.player.potions)
    /\ gameState.player.hp < gameState.player.maxHp
    /\ gameState' = [gameState EXCEPT
                       !.player.hp = Min(gameState.player.maxHp,
                                         @ + (gameState.player.maxHp \div 2)),
                       !.player.potions = @ - 1]
    /\ fx' = Fx("potion")
    /\ UNCHANGED << engine, isGameOver, isPaused, isLevelingUp, isShopping,
                    isTransitioning, animatingRef, arrowProjectile, timers, games, budget,
                    inspectVars >>

\* useAntidote (lines 219-227)
UseAntidoteB ==
    /\ engine = "B"
    /\ SurfaceOpenB
    /\ InStock(gameState.player.antidotes)
    /\ gameState.player.isPoisoned
    /\ gameState' = [gameState EXCEPT !.player.isPoisoned = FALSE,
                                      !.player.poisonStepCounter = 0,
                                      !.player.antidotes = @ - 1]
    /\ fx' = Fx("antidote")
    /\ UNCHANGED << engine, isGameOver, isPaused, isLevelingUp, isShopping,
                    isTransitioning, animatingRef, arrowProjectile, timers, games, budget,
                    inspectVars >>

\* fireArrow (lines 243-252)
FireArrowB ==
    /\ engine = "B"
    /\ SurfaceOpenB
    /\ InStock(gameState.player.arrows)
    /\ gameState.player.lastMoveDirection # NoDirection
    /\ budget.shots > 0
    /\ budget' = [budget EXCEPT !.shots = @ - 1]
    /\ gameState' = [gameState EXCEPT !.player.arrows = @ - 1]
    /\ arrowProjectile' = Flying(gameState.player.x, gameState.player.y,
                                 gameState.player.lastMoveDirection)
    /\ animatingRef' = (arrowProjectile = NoArrow)
    /\ timers' = RearmArrowB(timers, gameState')
    /\ fx' = [Fx("fire") EXCEPT !.arrow = "flies"]
    /\ UNCHANGED << engine, isGameOver, isPaused, isLevelingUp, isShopping,
                    isTransitioning, games,
                    inspectVars >>

\* the arrow has stopped (at a wall or at an enemy): processTurn on the state
\* the closure captured, whose result replaces every update queued before it
ArrowStopsB(gs, struck, rest, how) ==
    \E rnd \in DrawsForB(gs, Pos(gs.player.x, gs.player.y)) :
    \E turn \in {ProcessTurnB(gs, Pos(gs.player.x, gs.player.y), rnd)} :
    \E queued \in {Defeats(gameState, struck \o turn.kills, gs.level)} :
        /\ gameState' = turn.state
        /\ arrowProjectile' = NoArrow
        /\ animatingRef' = FALSE
        /\ isGameOver' = (turn.deaths > 0 \/ isGameOver)
        /\ isLevelingUp' = (queued.prompts > 0 \/ isLevelingUp)
        /\ timers' = rest
        /\ fx' = [NoFx EXCEPT !.arrow = how,
                              !.unpicked = gameState.pickedUpItems \ turn.state.pickedUpItems,
                              !.turns = 1, !.deaths = turn.deaths,
                        !.enemyTurns = << turn.foeHp >>,
                              !.ticks = IF turn.ticked THEN 1 ELSE 0,
                              !.detonated = turn.detonated,
                              !.xpGains = queued.gains, !.prompts = queued.prompts]

\* one tick of the arrow's interval (lines 481-516)
TimerArrowTickB ==
    /\ engine = "B"
    /\ timers # << >> /\ Head(timers).kind = "arrowTick"
    /\ LET gs == Head(timers).data.state
           x == arrowProjectile.x + DirDelta(arrowProjectile.direction).x
           y == arrowProjectile.y + DirDelta(arrowProjectile.direction).y
           idx == FirstAt(gs.enemies, Pos(x, y))
           rest == AfterFire(timers)
       IN  IF ~IsFloorB(gs.map, x, y) THEN ArrowStopsB(gs, << >>, rest, "wall")
           ELSE IF idx # 0
                THEN ArrowStopsB(gs,
                                 IF gs.enemies[idx].hp - (10 + gs.player.arrowDamageBonus) <= 0
                                 THEN << gs.enemies[idx] >> ELSE << >>,
                                 rest, "hit")
           ELSE /\ arrowProjectile' = [arrowProjectile EXCEPT !.x = x, !.y = y]
                /\ animatingRef' = FALSE
                /\ timers' = RearmArrowB(rest, gameState)
                /\ fx' = [NoFx EXCEPT !.arrow = "flies"]
                /\ UNCHANGED << gameState, isGameOver, isLevelingUp >>
    /\ UNCHANGED << engine, isPaused, isShopping, isTransitioning, games, budget,
                    inspectVars >>

\* handleLevelUpChoice (both engines), offered by the LevelUpModal
\* (a level-up whose hp choice raises maxHp without healing)
C28_NoHeal(p, choice) ==
    LET boosted == IF choice = "hp"
                   THEN [p EXCEPT !.maxHp = @ + 20]
                   ELSE [p EXCEPT !.attack = @ + 5]
    IN  [boosted EXCEPT !.xp = @ - p.xpToNextLevel,
                        !.level = @ + 1,
                        !.xpToNextLevel = XpThreshold(p.level + 1)]

LevelUp(p, choice) ==
    LET boosted == IF choice = "hp"
                   THEN [p EXCEPT !.maxHp = @ + 20, !.hp = p.maxHp + 20]
                   ELSE [p EXCEPT !.attack = @ + 5]
    IN  [boosted EXCEPT !.xp = @ - p.xpToNextLevel,
                        !.level = @ + 1,
                        !.xpToNextLevel = XpThreshold(p.level + 1)]

\* (a choice that leaves the prompt open)
C10_ChoiceKeepsPrompt(choice) ==
    /\ isLevelingUp
    /\ gameState' = [gameState EXCEPT !.player = LevelUp(@, choice)]
    /\ fx' = Fx("choice")
    /\ UNCHANGED << engine, isGameOver, isPaused, isLevelingUp, isShopping,
                    isTransitioning, animatingRef, arrowProjectile, timers, games, budget,
                    inspectVars >>

HandleLevelUpChoice(choice) ==
    /\ isLevelingUp
    /\ gameState' = [gameState EXCEPT !.player = LevelUp(@, choice)]
    /\ isLevelingUp' = FALSE
    /\ fx' = Fx("choice")
    /\ UNCHANGED << engine, isGameOver, isPaused, isShopping, isTransitioning,
                    animatingRef, arrowProjectile, timers, games, budget,
                    inspectVars >>

\* SHOP_ITEMS: the types on offer and their costs
ShopItems == {"POTION", "ANTIDOTE", "ARROWS", "BOMB"}

Cost(type) ==
    CASE type = "POTION" -> 25
      [] type = "ANTIDOTE" -> 30
      [] type = "ARROWS" -> 15
      [] type = "BOMB" -> 40

\* (a shop that never turns a customer away)
C22_AlwaysAffordable(gold, cost) == TRUE

\* handleBuyItem's test on the rendered gold (gold < item.cost returns)
Affordable(gold, cost) == gold >= cost

\* handleBuyItem's updater
\* (a purchase that adds to the counter without looking at its cap)
C31_BoughtUncapped(p, type) ==
    LET paid == [p EXCEPT !.gold = @ - Cost(type)]
    IN  CASE type = "POTION" -> [paid EXCEPT !.potions = @ + 1]
          [] type = "ARROWS" -> [paid EXCEPT !.arrows = @ + 3]
          [] type = "BOMB" -> [paid EXCEPT !.bombs = @ + 1]
          [] type = "ANTIDOTE" -> [paid EXCEPT !.antidotes = @ + 1]

Bought(p, type) ==
    LET paid == [p EXCEPT !.gold = @ - Cost(type)]
    IN  CASE type = "POTION" -> [paid EXCEPT !.potions = Min(3, @ + 1)]
          [] type = "ARROWS" -> [paid EXCEPT !.arrows = Min(paid.maxArrows, @ + 3)]
          [] type = "BOMB" -> [paid EXCEPT !.bombs = Min(paid.maxBombs, @ + 1)]
          [] type = "ANTIDOTE" -> [paid EXCEPT !.antidotes = Min(3, @ + 1)]

\* handleBuyItem (engine A lines 221-249, engine B lines 189-202), offered by
\* the ShopModal
HandleBuyItem(type) ==
    /\ isShopping
    /\ IF Affordable(gameState.player.gold, Cost(type))
       THEN gameState' = [gameState EXCEPT !.player = Bought(@, type)]
       ELSE UNCHANGED gameState
    /\ fx' = [Fx("buy") EXCEPT !.item = type]
    /\ UNCHANGED << engine, isGameOver, isPaused, isLevelingUp, isShopping,
                    isTransitioning, animatingRef, arrowProjectile, timers, games,
                    budget, inspectVars >>

\* the shop's onClose, or Escape while shopping
CloseShop ==
    /\ isShopping
    /\ isShopping' = FALSE
    /\ fx' = Fx("close")
    /\ UNCHANGED << engine, gameState, isGameOver, isPaused, isLevelingUp,
                    isTransitioning, animatingRef, arrowProjectile, timers, games, budget,
                    inspectVars >>

\* Escape: engine A lines 567-572 (the inspection and the shop are closed by
\* DismissInspectA and CloseShop), engine B line 75
TogglePause ==
    /\ ~isGameOver
    /\ ~isLevelingUp
    /\ ~isShopping
    /\ engine = "A" => ~isInspecting
    /\ isPaused' = ~isPaused
    /\ IF isPaused
       THEN UNCHANGED budget
       ELSE /\ budget.pauses > 0
            /\ budget' = [budget EXCEPT !.pauses = @ - 1]
    /\ fx' = Fx("pause")
    /\ UNCHANGED << engine, gameState, isGameOver, isLevelingUp, isShopping,
                    isTransitioning, animatingRef, arrowProjectile, timers, games,
                    inspectVars >>

\* the pause modal's Resume (engine A line 627, engine B line 555)
ResumeGame ==
    /\ isPaused
    /\ isPaused' = FALSE
    /\ fx' = Fx("resume")
    /\ UNCHANGED << engine, gameState, isGameOver, isLevelingUp, isShopping,
                    isTransitioning, animatingRef, arrowProjectile, timers, games,
                    budget, inspectVars >>

\* getEnemyDescription's answer for a type, and the text shown on failure
Description(type) == << "description", type >>
Thinking == << "Thinking..." >>
NoRead == << "Could not get a read on this one..." >>

\* handleInspectEnemy up to its await (engine A lines 168-173), reached by a
\* click on an enemy of the grid, which no modal covers
HandleInspectEnemyA(i) ==
    /\ engine = "A"
    /\ PadsOpenA
    /\ ~isInspecting
    /\ budget.inspects > 0
    /\ gameState.enemies[i].hp > 0
    /\ isInspecting' = TRUE
    /\ inspectedEnemy' = [enemy |-> gameState.enemies[i], description |-> Thinking]
    /\ lookups' = Append(lookups, gameState.enemies[i])
    /\ budget' = [budget EXCEPT !.inspects = @ - 1]
    /\ fx' = Fx("inspect")
    /\ UNCHANGED << engine, gameState, isGameOver, isPaused, isLevelingUp,
                    isShopping, isTransitioning, animatingRef, arrowProjectile,
                    timers, games >>

\* handleInspectEnemy after its await (engine A lines 174-179): the lookup
\* of one call settles, with a description or with an error
LookupSettlesA ==
    /\ engine = "A"
    /\ \E k \in DOMAIN lookups, ok \in BOOLEAN :
          /\ inspectedEnemy' =
                [enemy |-> lookups[k],
                 description |-> IF ok THEN Description(lookups[k].type)
                                 ELSE NoRead]
          /\ lookups' = [j \in 1..(Len(lookups) - 1) |->
                           IF j < k THEN lookups[j] ELSE lookups[j + 1]]
    /\ fx' = Fx("describe")
    /\ UNCHANGED << engine, gameState, isGameOver, isPaused, isLevelingUp,
                    isShopping, isTransitioning, isInspecting, animatingRef,
                    arrowProjectile, timers, games, budget >>

\* the inspection modal's Close (engine A line 642), or Escape while
\* inspecting (line 569)
DismissInspectA ==
    /\ engine = "A"
    /\ inspectedEnemy # NoInspection \/ (isInspecting /\ ~isGameOver)
    /\ inspectedEnemy' = NoInspection
    /\ isInspecting' = FALSE
    /\ fx' = Fx("dismiss")
    /\ UNCHANGED << engine, gameState, isGameOver, isPaused, isLevelingUp,
                    isShopping, isTransitioning, animatingRef, arrowProjectile,
                    timers, games, budget, lookups >>

\* restartGame (both engines), offered by the game-over modal and, in engine
\* A, by the pause modal (line 631)
RestartGame ==
    /\ isGameOver \/ (engine = "A" /\ isPaused)
    /\ games < NewGamesFollowed
    /\ gameState' = NewGameState(1, gameState.map, RetainedOnRestart(gameState.player))
    /\ isGameOver' = FALSE
    /\ isPaused' = FALSE
    /\ NewMapRenderedB([i \in DOMAIN timers |-> [timers[i] EXCEPT !.old = TRUE]])
    /\ games' = games + 1
    /\ fx' = Fx("restart")
    /\ UNCHANGED << engine, isLevelingUp, isShopping, isTransitioning,
                    arrowProjectile, budget,
                    inspectVars >>

\* ----------------------------------------------------------- specification
\* handleClassSelect: newGame(1, { ...classData.stats, playerClass, ... })
ClassStart(c) ==
    Spread(ClassStats(c), [playerClass |-> c, corruption |-> 0, activeAugments |-> {}])

\* the runs explored: the engine, the class chosen on the title screen, the
\* dungeon generated for it, and the inputs the player will make beyond
\* moving: arrows fired and pauses in the archery corridor, pauses and
\* inspections in the gallery, arrows fired in the powder corridor, arrows
\* fired and steps onto the altar in the shrine
NoBudget == [shots |-> 0, pauses |-> 0, inspects |-> 0, prayers |-> 0]

Starts == {[engine |-> "A", class |-> "Ranger", map |-> 1, budget |-> NoBudget],
           [engine |-> "A", class |-> "Knight", map |-> 2, budget |-> NoBudget],
           [engine |-> "A", class |-> "Knight", map |-> 3, budget |-> NoBudget],
           [engine |-> "B", class |-> "Ranger", map |-> 1, budget |-> NoBudget],
           [engine |-> "B", class |-> "Knight", map |-> 4, budget |-> NoBudget],
           [engine |-> "A", class |-> "Ranger", map |-> 5,
            budget |-> [shots |-> MaxShots, pauses |-> MaxPauses, inspects |-> 0, prayers |-> 0]],
           [engine |-> "B", class |-> "Ranger", map |-> 5,
            budget |-> [shots |-> MaxShots, pauses |-> MaxPauses, inspects |-> 0, prayers |-> 0]],
           [engine |-> "B", class |-> "Ranger", map |-> 7,
            budget |-> [shots |-> MaxShots - 1, pauses |-> 0, inspects |-> 0, prayers |-> 0]],
           [engine |-> "A", class |-> "Knight", map |-> 8, budget |-> NoBudget],
           [engine |-> "B", class |-> "Knight", map |-> 8, budget |-> NoBudget],
           [engine |-> "B", class |-> "Knight", map |-> 9, budget |-> NoBudget],
           [engine |-> "B", class |-> "Knight", map |-> 10, budget |-> NoBudget],
           [engine |-> "B", class |-> "Ranger", map |-> 11,
            budget |-> [shots |-> MaxShots - 1, pauses |-> 0, inspects |-> 0,
                        prayers |-> MaxPrayers]],
           [engine |-> "B", class |-> "Knight", map |-> 12, budget |-> NoBudget],
           [engine |-> "A", class |-> "Knight", map |-> 13, budget |-> NoBudget],
           [engine |-> "A", class |-> "Knight", map |-> 14, budget |-> NoBudget],
           [engine |-> "B", class |-> "Knight", map |-> 14, budget |-> NoBudget],
           [engine |-> "A", class |-> "Knight", map |-> 15, budget |-> NoBudget],
           [engine |-> "A", class |-> "Ranger", map |-> 14,
            budget |-> [shots |-> 1, pauses |-> 0, inspects |-> 0, prayers |-> 0]],
           [engine |-> "B", class |-> "Knight", map |-> 13, budget |-> NoBudget],
           [engine |-> "A", class |-> "Knight", map |-> 6,
            budget |-> [shots |-> 0, pauses |-> MaxPauses,
                        inspects |-> MaxInspects, prayers |-> 0]]}

Init ==
    /\ \E st \in Starts :
          /\ engine = st.engine
          /\ gameState = NewGameState(1, st.map, ClassStart(st.class))
          /\ budget = st.budget
    /\ isGameOver = FALSE
    /\ isPaused = FALSE
    /\ isLevelingUp = FALSE
    /\ isShopping = FALSE
    /\ isTransitioning = FALSE
    /\ isInspecting = FALSE
    /\ inspectedEnemy = NoInspection
    /\ lookups = << >>
    /\ animatingRef = FALSE
    /\ arrowProjectile = NoArrow
    /\ timers = << >>
    /\ games = 0
    /\ fx = NoFx

NextA ==
    \/ \E direction \in Directions : HandleMoveA(direction)
    \/ TimerAfterTurnA
    \/ TimerAfterMeleeA
    \/ TimerUnlockA
    \/ TimerScreenMoveA
    \/ HandleDropBombA
    \/ HandleUsePotionA
    \/ HandleUseAntidoteA
    \/ HandleFireArrowA
    \/ TimerMoveArrowA
    \/ \E i \in DOMAIN gameState.enemies : HandleInspectEnemyA(i)
    \/ LookupSettlesA
    \/ DismissInspectA

NextB ==
    \/ \E direction \in Directions : HandleMoveB(direction)
    \/ PlaceBombB
    \/ UsePotionB
    \/ UseAntidoteB
    \/ FireArrowB
    \/ TimerArrowTickB

Next ==
    \/ NextA
    \/ NextB
    \/ TimerClearBlasts
    \/ TimerNextLevel
    \/ \E choice \in {"hp", "attack"} : HandleLevelUpChoice(choice)
    \/ \E type \in ShopItems : HandleBuyItem(type)
    \/ CloseShop
    \/ TogglePause
    \/ ResumeGame
    \/ RestartGame

Spec == Init /\ [][Next]_vars

\* ------------------------------------------------------------------ claims
\* C1: after every resolver (here: of engine A, part_000) the player's hp lies
\* in 0..maxHp; enemy attacks never leave it negative.
C1_HpClamped ==
    engine = "A" =>
        /\ gameState.player.hp >= 0
        /\ gameState.player.hp <= gameState.player.maxHp

\* an enemy turn of engine A has just run and left the player below 0 hp
C1_EnemyTurnLeftNegativeHp ==
    /\ engine = "A"
    /\ timers # << >> /\ Head(timers).kind = "unlock" /\ Head(timers).rem = 150
    /\ gameState.player.hp < 0

\* C2: the game-over transition fires once per death: a death sets isGameOver
\* with one transition, and while the game is over nothing fires it again or
\* changes the player's hp until a restart.
C2_GameOverOnce ==
    [][/\ fx'.deaths <= 1
       /\ (gameState.player.hp > 0 /\ gameState'.player.hp <= 0 => isGameOver')
       /\ (isGameOver /\ isGameOver' =>
             fx'.deaths = 0 /\ gameState'.player.hp = gameState.player.hp)]_vars

\* the game of engine A is over and the player has hp again
C2_HpBackAfterGameOver ==
    engine = "A" /\ isGameOver /\ gameState.player.hp > 0

\* C3: a bomb goes off in exactly the fuse-th turn resolution after it was
\* placed and leaves the bomb list in that step: a bomb in the list is armed
\* (stepsRemaining >= 1) and has been through fewer resolutions than its fuse.
C3_FuseExact ==
    LET fuse == IF engine = "A" THEN BOMB_FUSE_STEPS ELSE BOMB_FUSE_STEPS_B
    IN  /\ \A b \in SeqToSet(gameState.bombs) :
              b.stepsRemaining >= 1 /\ b.age + b.stepsRemaining = fuse
        /\ \A d \in SeqToSet(fx.detonated) : d.age = fuse

\* a bomb of engine B goes off in a resolution after its fuse-th one
C3_BombOutlivedFuse ==
    engine = "B" /\ \E d \in SeqToSet(fx.detonated) : d.age > BOMB_FUSE_STEPS_B

\* C4: every turn-consuming action of engine A (it takes the input lock), a
\* move and a melee attack alike, takes one step off the fuse of every bomb
\* and advances the poison step counter of a poisoned player by one.
C4_TurnAdvancesEffects ==
    [][engine = "A" /\ ~animatingRef /\ animatingRef' =>
         LET armed == SelectSeq(gameState.bombs, LAMBDA b : b.stepsRemaining > 1)
             counter == gameState.player.poisonStepCounter
         IN  /\ Len(gameState'.bombs) = Len(armed)
             /\ \A i \in DOMAIN armed :
                   gameState'.bombs[i].stepsRemaining = armed[i].stepsRemaining - 1
             /\ gameState.player.isPoisoned =>
                   gameState'.player.poisonStepCounter =
                     (IF counter + 1 >= POISON_TICK_STEPS THEN 0 ELSE counter + 1)]_vars

\* a melee attack of engine A has just been made while a bomb is burning
C4_MeleeWithBombBurning ==
    /\ engine = "A"
    /\ timers # << >> /\ Head(timers).kind = "afterMelee" /\ Head(timers).rem = 150
    /\ gameState.bombs # << >>

\* C5: a poisoned player's step counter advances in every turn resolution and
\* in no other step; the poison damage is applied exactly in the resolution
\* in which the counter reaches POISON_TICK_STEPS, which puts it back to 0;
\* the count starts at 0 when the player is poisoned.
C5_PoisonTickSchedule ==
    [][LET p == gameState.player
           q == gameState'.player
           resolves == fx'.turns = 1 /\ p.isPoisoned
       IN  /\ q.poisonStepCounter < POISON_TICK_STEPS
           /\ resolves /\ p.poisonStepCounter + 1 >= POISON_TICK_STEPS =>
                 fx'.ticks = 1 /\ q.poisonStepCounter = 0
           /\ resolves /\ p.poisonStepCounter + 1 < POISON_TICK_STEPS =>
                 fx'.ticks = 0 /\ q.poisonStepCounter = p.poisonStepCounter + 1
           /\ ~resolves => fx'.ticks = 0
           /\ ~resolves /\ p.isPoisoned /\ q.isPoisoned =>
                 q.poisonStepCounter = p.poisonStepCounter
           /\ ~p.isPoisoned /\ q.isPoisoned => q.poisonStepCounter = 0]_vars

\* a poisoned player of engine B has stepped onto the exit in the resolution
\* that was due to tick
C5_TickDueOnExitStep ==
    /\ engine = "B" /\ isTransitioning
    /\ fx.turns = 1 /\ fx.ticks = 1
    /\ gameState.player.isPoisoned

\* C6: using an antidote (the count of antidotes goes down by one within a
\* game) clears isPoisoned and leaves poisonStepCounter at 0, and no poison
\* damage is applied to a player who is not poisoned.
C6_AntidoteCures ==
    [][/\ (/\ games' = games
           /\ gameState'.player.antidotes = gameState.player.antidotes - 1) =>
             /\ gameState.player.isPoisoned
             /\ ~gameState'.player.isPoisoned
             /\ gameState'.player.poisonStepCounter = 0
       /\ (~gameState.player.isPoisoned => fx'.ticks = 0)]_vars

\* the player of engine A is cured and the step counter is not 0
C6_CuredWithCounterLeft ==
    /\ engine = "A"
    /\ ~gameState.player.isPoisoned
    /\ gameState.player.antidotes = 0 /\ gameState.player.playerClass = "Ranger"
    /\ gameState.player.poisonStepCounter > 0

C7_BackOnCollectedTile ==
    /\ fx.turns = 1
    /\ gameState.player.x = 2 /\ gameState.player.y = 1
    /\ Item("GOLD", 2, 1) \in Layout(gameState.map).items
    /\ {Pos(2, 1), Pos(3, 1)} \subseteq gameState.pickedUpItems

\* C8: a step onto a gold item that is not yet collected, at dungeon level L,
\* adds exactly 5 + L to the player's gold and changes no other consumable.
C8_GoldIsFivePlusLevel ==
    [][LET p == gameState.player
           q == gameState'.player
           tile == Pos(q.x, q.y)
       IN  (/\ games' = games /\ fx'.turns = 1 /\ tile # Pos(p.x, p.y)
            /\ Item("GOLD", tile.x, tile.y) \in Layout(gameState.map).items
            /\ tile \notin gameState.pickedUpItems) =>
               /\ q.gold = p.gold + 5 + gameState.level
               /\ q.potions = p.potions /\ q.bombs = p.bombs
               /\ q.arrows = p.arrows /\ q.antidotes = p.antidotes]_vars

\* the player of engine B has just collected the gold of a level-1 dungeon
C8_GoldCollectedInB ==
    /\ engine = "B" /\ gameState.level = 1 /\ fx.turns = 1
    /\ gameState.player.x = 2 /\ gameState.player.y = 1
    /\ Item("GOLD", 2, 1) \in Layout(gameState.map).items
    /\ gameState.pickedUpItems = {Pos(2, 1)}
    /\ gameState.player.gold = 10

\* C9: the enemies defeated by an action (alive before it, dead or gone after
\* it) add floor(baseXp * (1 + level / 10)) each to the player's xp in the
\* state the action leaves.
C9_DefeatGrantsXp ==
    [][LET living == {e \in SeqToSet(gameState'.enemies) : e.hp > 0}
           defeated == {e \in SeqToSet(gameState.enemies) :
                          e.hp > 0 /\ \A o \in living : o.id # e.id}
           Gain(type) == Cardinality({e \in defeated : e.type = type})
                           * XpGained(type, gameState.level)
       IN  games' = games /\ defeated # {} =>
             gameState'.player.xp =
               gameState.player.xp + Gain("GOBLIN") + Gain("SLIME")
                 + Gain("SKELETON") + Gain("SPIDER")]_vars

\* a melee attack of engine A has just defeated the first enemy of the game
\* and the player's xp is still 0
C9_MeleeKillWithoutXp ==
    /\ engine = "A" /\ games = 0
    /\ timers # << >> /\ Head(timers).kind = "afterMelee" /\ Head(timers).rem = 150
    /\ fx.xpGains # << >>
    /\ gameState.player.xp = 0

C11_RestartHalvesGold ==
    [][fx'.op = "restart" =>
         /\ gameState'.player.gold = gameState.player.gold \div 2
         /\ gameState'.player.xp = 0
         /\ gameState'.level = 1]_vars

\* the player of engine A lies dead with gold in the purse and may restart
C11_DeadWithGold ==
    /\ engine = "A" /\ isGameOver /\ games < MaxNewGames
    /\ gameState.player.hp = 0
    /\ gameState.player.gold >= 2

\* C12: the death/restart flow keeps the player's level, maxHp, attack,
\* class, corruption and active augments, whatever the class and whatever
\* the level-up choices made before the death.
C12_RestartKeepsProgression ==
    [][fx'.op = "restart" =>
         LET p == gameState.player
             q == gameState'.player
         IN  /\ q.level = p.level /\ q.maxHp = p.maxHp /\ q.attack = p.attack
             /\ q.playerClass = p.playerClass
             /\ q.corruption = p.corruption
             /\ q.activeAugments = p.activeAugments]_vars

\* the player lies dead at level 2 with a level-up bonus earned and may restart
C12_DeadWithProgression ==
    /\ isGameOver /\ ~isLevelingUp /\ games < MaxNewGames
    /\ gameState.player.level = 2
    /\ \/ gameState.player.maxHp = ClassStats(gameState.player.playerClass).maxHp + 20
       \/ gameState.player.attack = ClassStats(gameState.player.playerClass).attack + 5

\* C13: a move requested into a wall tile changes nothing: the game state
\* (position, aim, bombs, poison counter, enemies, picked-up set) is the
\* same after it, no turn is resolved and the input lock is not taken.
C13_WallBumpChangesNothing ==
    [][fx'.op = "bump" =>
         /\ gameState' = gameState
         /\ fx'.turns = 0
         /\ animatingRef' = animatingRef /\ timers' = timers]_vars

\* the player of engine A, in the corridor (no tile above it is floor), has
\* bumped into the wall and aims up
C13_AimsAtBumpedWall ==
    /\ engine = "A" /\ gameState.map = 1
    /\ fx.op = "bump"
    /\ gameState.player.lastMoveDirection = "ArrowUp"

\* C14: while the input lock is held (animatingRef set by a pending turn
\* resolution, an arrow in flight, or a screen transition in progress) no
\* player action (move, melee, fire, bomb, potion, antidote) changes the game
\* state.
C14_LockedInputChangesNothing ==
    [][(/\ animatingRef \/ arrowProjectile # NoArrow \/ isTransitioning
        /\ fx'.op \in {"bump", "cross", "melee", "step", "fire",
                       "bomb", "potion", "antidote"}) =>
          gameState' = gameState]_vars

\* the player of engine A has drunk a potion while the lock of a pending turn
\* resolution is held
C14_PotionUnderLock ==
    /\ engine = "A" /\ animatingRef /\ timers # << >>
    /\ fx.op = "potion"

\* C15: at most one arrow is in flight (one projectile, one pending step of
\* it); an arrow is fired only while no arrow is in flight, with at least
\* one arrow held and a last-moved direction recorded, and the shot takes
\* exactly one arrow.
C15_OneArrowInFlight ==
    [][/\ Len(SelectSeq(timers', LAMBDA t : t.kind \in {"moveArrow", "arrowTick"}))
            <= (IF arrowProjectile' # NoArrow THEN 1 ELSE 0)
       /\ fx'.op = "fire" =>
            /\ arrowProjectile = NoArrow
            /\ gameState.player.arrows >= 1
            /\ gameState.player.lastMoveDirection # NoDirection
            /\ gameState'.player.arrows = gameState.player.arrows - 1]_vars

\* the player of engine B has fired while an arrow was in flight: the effect
\* of the replaced projectile has released the lock
C15_FiredWhileInFlight ==
    /\ engine = "B" /\ fx.op = "fire"
    /\ arrowProjectile # NoArrow /\ ~animatingRef
    /\ gameState.player.arrows = ClassStats("Ranger").arrows - 2

\* C16: while a modal state is active (leveling up, shopping, paused, or an
\* enemy inspected), no movement, melee, arrow or bomb input changes the game
\* state or puts an arrow in flight, whichever surface delivers it.
ModalActive ==
    \/ isLevelingUp \/ isShopping \/ isPaused
    \/ isInspecting \/ inspectedEnemy # NoInspection

C16_ModalBlocksInput ==
    [][(ModalActive /\ fx'.op \in {"bump", "cross", "melee", "step", "fire", "bomb"})
          => gameState' = gameState /\ arrowProjectile' = arrowProjectile]_vars

\* engine B: an arrow is in flight behind the pause modal, shot with an arrow
\* the quiver has paid for
C16_FiredWhilePaused ==
    /\ engine = "B"
    /\ isPaused
    /\ fx.op = "fire"
    /\ arrowProjectile # NoArrow
    /\ gameState.player.arrows = ClassStats("Ranger").arrows - 1

\* C17: a lookup that settles after the inspection view was dismissed leaves
\* the view as it is (closed, it stays closed), and a lookup that settles
\* while an enemy is inspected never puts another enemy in the view.
C17_StaleLookupDiscarded ==
    [][fx'.op = "describe" =>
          /\ ~isInspecting => inspectedEnemy' = inspectedEnemy
          /\ isInspecting => inspectedEnemy'.enemy = inspectedEnemy.enemy]_vars

\* the view was dismissed, and the answer that came late has opened it again
C17_ReopenedByLateAnswer ==
    /\ engine = "A"
    /\ fx.op = "describe"
    /\ ~isInspecting
    /\ inspectedEnemy # NoInspection
    /\ lookups = << >>

\* the skeleton is being inspected, and the view shows the goblin's answer
C17_AnswerForAnotherEnemy ==
    /\ engine = "A"
    /\ fx.op = "describe"
    /\ isInspecting
    /\ inspectedEnemy # NoInspection
    /\ inspectedEnemy.enemy.type = "GOBLIN"
    /\ Len(lookups) = 1
    /\ lookups[1].type = "SKELETON"

\* C18: no tile holds two armed bombs (a drop-bomb request made on a tile
\* that holds a bomb is not accepted).
BombsAt(pos) == {i \in DOMAIN gameState.bombs : At(gameState.bombs[i], pos)}

C18_OneBombPerTile ==
    \A i \in DOMAIN gameState.bombs : Cardinality(BombsAt(gameState.bombs[i])) = 1

\* engine B: both of the Knight's bombs are armed on the tile they stand on
C18_TwoBombsUnderKnight ==
    /\ engine = "B"
    /\ fx.op = "bomb"
    /\ Cardinality(BombsAt(gameState.player)) = 2
    /\ gameState.player.bombs = 0

\* C19: a defeated enemy is out of play.  An enemy kept in the list with
\* hp <= 0 is never moved or damaged again while its map lasts, and the melee
\* blow that defeats the only enemy of the map is not answered: with no bomb
\* going off, the player loses no more hp in that turn than a poison tick.
C19_LastEnemyFalls ==
    /\ fx'.op = "melee"
    /\ fx'.detonated = << >>
    /\ Len(gameState.enemies) = 1
    /\ gameState.enemies[1].hp > 0
    /\ \A i \in DOMAIN gameState'.enemies : gameState'.enemies[i].hp <= 0

C19_DefeatedOutOfPlay ==
    [][/\ (games' = games /\ Len(gameState'.enemies) = Len(gameState.enemies)) =>
            \A i \in DOMAIN gameState.enemies :
                gameState.enemies[i].hp <= 0 =>
                    gameState'.enemies[i] = gameState.enemies[i]
       /\ C19_LastEnemyFalls =>
            gameState'.player.hp >= gameState.player.hp
                - (IF PoisonTicksNow(gameState.player) THEN POISON_DAMAGE ELSE 0)]_vars

\* engine B: the spider is gone, and the Ranger has taken two of its bites,
\* one for each of the two blows it took to defeat it
C19_BittenByTheFallen ==
    /\ engine = "B"
    /\ gameState.map = 1
    /\ fx.op = "melee"
    /\ gameState.enemies = << >>
    /\ gameState.player.hp = ClassStats("Ranger").hp - 2 * 45

\* C20: an arrow that reaches a wall is destroyed with no further effect: the
\* projectile is cleared, no turn is resolved, and the game state stays as it
\* was, but for the arrow the quiver gives up when that step is the shot.
C20_WallStopsArrow ==
    [][fx'.arrow = "wall" =>
          /\ arrowProjectile' = NoArrow
          /\ fx'.turns = 0
          /\ gameState' = IF fx'.op = "fire"
                          THEN [gameState EXCEPT !.player.arrows = @ - 1]
                          ELSE gameState]_vars

\* engine B: the arrow has crossed the corridor and met the wall, and a turn
\* was resolved for it
C20_TurnForWall ==
    /\ engine = "B"
    /\ fx.arrow = "wall"
    /\ fx.turns = 1
    /\ arrowProjectile = NoArrow
    /\ gameState.player.arrows = ClassStats("Ranger").arrows - 1

\* C21: blast tiles never wait for the player: whenever activeBlasts is not
\* empty the callback that clears it is pending, and no turn is resolved
\* while blast tiles of an earlier turn are still recorded.
ClearingPending == \E i \in DOMAIN timers : timers[i].kind = "clearBlasts"

C21_BlastsClearThemselves ==
    /\ gameState.activeBlasts # {} => ClearingPending
    /\ (fx.turns = 1 /\ fx.detonated = << >>) => gameState.activeBlasts = {}

\* engine B: the turn resolved for an arrow's wall hit set off the bomb, and
\* nothing is left to run that would clear the blast tiles
C21_BlastLeftByArrowTurn ==
    /\ engine = "B"
    /\ fx.arrow = "wall"
    /\ fx.detonated # << >>
    /\ gameState.activeBlasts # {}
    /\ timers = << >>

\* C22: a purchase asked for with gold below the cost changes nothing; an
\* affordable one takes exactly the cost from the gold, sets the consumable
\* bought to min(cap, count + amount) and changes nothing else of the player
\* or the game; gold is never negative.
C22_Purchased(p, type) ==
    CASE type = "POTION" -> [p EXCEPT !.potions = Min(3, p.potions + 1)]
      [] type = "ANTIDOTE" -> [p EXCEPT !.antidotes = Min(3, p.antidotes + 1)]
      [] type = "ARROWS" -> [p EXCEPT !.arrows = Min(p.maxArrows, p.arrows + 3)]
      [] type = "BOMB" -> [p EXCEPT !.bombs = Min(p.maxBombs, p.bombs + 1)]
      [] OTHER -> p

C22_PurchaseIsExact ==
    /\ [](gameState.player.gold >= 0)
    /\ [][fx'.op = "buy" =>
            IF gameState.player.gold < Cost(fx'.item)
            THEN gameState' = gameState
            ELSE gameState' =
                   [gameState EXCEPT !.player =
                      [C22_Purchased(@, fx'.item) EXCEPT !.gold = @ - Cost(fx'.item)]]]_vars

\* engine A: the Knight has bought arrows twice with the gold of the market,
\* the second time with the quiver already full, and cannot pay for more
C22_ArrowsBoughtAtCap ==
    /\ engine = "A"
    /\ gameState.map = 8
    /\ fx.op = "buy"
    /\ fx.item = "ARROWS"
    /\ gameState.player.gold = 0
    /\ gameState.player.arrows = gameState.player.maxArrows

\* C23: a step onto the wizard tile opens the shop, a step onto the exit
\* tile triggers the level transition, and in both cases no enemy acts: the
\* enemies stay as they were, no enemy turn is queued and, unless poison
\* ticks or a bomb goes off, the player keeps their hp.
C23_SteppedOnto(tile) == fx'.op = "step" /\ fx'.to = tile

C23_EnemyTurnQueued ==
    \E i \in DOMAIN timers' : timers'[i].kind = "afterTurn" /\ timers'[i].data.enemiesMove

C23_TransitionTriggered ==
    \/ isTransitioning'
    \/ \E i \in DOMAIN timers' : timers'[i].kind = "afterTurn" /\ timers'[i].data.exit

C23_NoEnemyActs ==
    /\ gameState'.enemies = gameState.enemies
    /\ ~C23_EnemyTurnQueued
    /\ (fx'.ticks = 0 /\ fx'.detonated = << >>) =>
          gameState'.player.hp = gameState.player.hp

C23_WizardAndExitSteps ==
    [][/\ C23_SteppedOnto(Layout(gameState.map).wizard) => isShopping' /\ C23_NoEnemyActs
       /\ C23_SteppedOnto(Layout(gameState.map).exit) =>
             C23_TransitionTriggered /\ C23_NoEnemyActs]_vars

\* engine B: the shop has opened on the step to the wizard, and the goblin
\* has come a tile closer in that step
C23_GoblinCameToTheShop ==
    /\ engine = "B"
    /\ gameState.map = 9
    /\ fx.op = "step"
    /\ isShopping
    /\ Pos(gameState.player.x, gameState.player.y) = Layout(9).wizard
    /\ gameState.enemies # << >>
    /\ gameState.enemies[1].x = 3

\* C24: the enemy turn is order-independent: run on the enemy list in
\* reverse order, with each enemy keeping its random draws, it leaves the
\* same enemies on the same tiles and the same player.
C24_Reverse(q) == [i \in 1..Len(q) |-> q[Len(q) + 1 - i]]

C24_Reversed(gs) == [gs EXCEPT !.enemies = C24_Reverse(@)]

C24_SameOutcome(a, b) ==
    /\ SeqToSet(a.enemies) = SeqToSet(b.enemies)
    /\ a.player = b.player

C24_EnemyTurnOrderIndependent ==
    IF engine = "A"
    THEN \A rnd \in DrawsFor(gameState) :
            C24_SameOutcome(ProcessEnemyTurnA(gameState, rnd).state,
                            ProcessEnemyTurnA(C24_Reversed(gameState),
                                              C24_Reverse(rnd)).state)
    ELSE \A rnd \in DrawsB(gameState.enemies, gameState.player, 1) :
            C24_SameOutcome(ProcessEnemyTurnB(gameState, rnd).state,
                            ProcessEnemyTurnB(C24_Reversed(gameState),
                                              C24_Reverse(rnd)).state)

\* engine B: the goblins have both advanced on the player's first step, the
\* one in front first; taken in the other order the one behind would have
\* found its tile occupied
C24_ColumnAdvanced ==
    /\ engine = "B"
    /\ gameState.map = 10
    /\ fx.op = "step"
    /\ Len(gameState.enemies) = 2
    /\ gameState.enemies[1].x = 3
    /\ gameState.enemies[2].x = 4
    /\ gameState.player.x = 2

\* C25: the player's corruption stays within 0..100 and no step of a run,
\* death and restart included, lowers it.
C25_CorruptionOnlyGrows ==
    /\ [](gameState.player.corruption \in 0..100)
    /\ [][gameState'.player.corruption >= gameState.player.corruption]_vars

\* engine B: the player has stepped onto the altar twice, and the turn
\* resolved for the arrow's wall hit has left the corruption of one visit
C25_VisitForgotten ==
    /\ engine = "B"
    /\ gameState.map = 11
    /\ fx.arrow = "wall"
    /\ budget.prayers = MaxPrayers - 2
    /\ gameState.player.corruption = 10

\* C26: in a step that detonates bombs, every living enemy on a blast tile
\* loses exactly base + bombDamageBonus hp, once, and leaves play only if
\* that is lethal; every other enemy keeps its hp; and when nothing else
\* touches the player in that step (no poison tick, no item or hazard on the
\* tile, no enemy next to it), the player loses the same amount if their tile
\* is a blast tile and nothing otherwise.
C26_BombDamage ==
    (IF engine = "A" THEN 50 ELSE 20) + gameState.player.bombDamageBonus

C26_After(e) == {o \in SeqToSet(gameState'.enemies) : o.id = e.id}

C26_EnemyTakesBlast(e) ==
    IF e.hp > 0 /\ Pos(e.x, e.y) \in gameState'.activeBlasts
    THEN IF e.hp - C26_BombDamage > 0
         THEN \E o \in C26_After(e) : o.hp = e.hp - C26_BombDamage
         ELSE \A o \in C26_After(e) : o.hp = e.hp - C26_BombDamage
    ELSE \E o \in C26_After(e) : o.hp = e.hp

C26_PlayerUntouchedOtherwise ==
    /\ fx'.ticks = 0
    /\ FindAt(Layout(gameState.map).items, fx'.to) = {}
    /\ FindAt(Layout(gameState.map).hazards, fx'.to) = {}
    /\ \A e \in SeqToSet(gameState.enemies) :
          Abs(e.x - fx'.to.x) + Abs(e.y - fx'.to.y) > 2

C26_PlayerTakesBlast ==
    LET hp == gameState.player.hp
        left == IF fx'.to \in gameState'.activeBlasts THEN hp - C26_BombDamage ELSE hp
    IN  gameState'.player.hp = left \/ (left <= 0 /\ gameState'.player.hp = 0)

C26_BlastDamageIsExact ==
    [][(fx'.op = "step" /\ fx'.detonated # << >> /\ gameState'.activeBlasts # {}) =>
          /\ \A e \in SeqToSet(gameState.enemies) : C26_EnemyTakesBlast(e)
          /\ C26_PlayerUntouchedOtherwise => C26_PlayerTakesBlast]_vars

\* engine B: the Knight's bomb (5 damage) has gone off two tiles from the
\* goblin of 30 hp, and the goblin is gone
C26_GoblinGoneForFive ==
    /\ engine = "B"
    /\ gameState.map = 12
    /\ fx.op = "step"
    /\ fx.detonated # << >>
    /\ Pos(2, 3) \in gameState.activeBlasts
    /\ gameState.enemies = << >>

\* C27: in the plus-propagation engine the blast set left by a detonation is
\* exactly, for each detonating bomb, the bomb's tile plus in each of the four
\* axis directions the tiles at distance 1..BOMB_RANGE that lie before the
\* first wall of that direction; no wall tile is in the blast set.
C27_FirstWall(map, b, d) ==
    LET walls == {j \in 1..BOMB_RANGE : IsWallA(map, b.x + d.x * j, b.y + d.y * j)}
    IN  IF walls = {} THEN BOMB_RANGE + 1
        ELSE CHOOSE j \in walls : \A k \in walls : j <= k

C27_Plus(map, b) ==
    {Pos(b.x, b.y)} \cup
    UNION {{Pos(b.x + d.x * j, b.y + d.y * j) : j \in 1..(C27_FirstWall(map, b, d) - 1)} :
              d \in {Pos(1, 0), Pos(-1, 0), Pos(0, 1), Pos(0, -1)}}

C27_BlastIsPlus ==
    [][(engine = "A" /\ fx'.detonated # << >>) =>
          /\ gameState'.activeBlasts =
                 UNION {C27_Plus(gameState.map, b) : b \in SeqToSet(fx'.detonated)}
          /\ \A t \in gameState'.activeBlasts : ~IsWallA(gameState.map, t.x, t.y)]_vars

\* engine A: a bomb has gone off with, inside the range of one arm, a wall
\* and a floor tile behind it, and the blast has left that floor tile out
C27_FloorBehindWallSpared ==
    /\ engine = "A"
    /\ fx.detonated # << >>
    /\ \E b \in SeqToSet(fx.detonated) : \E d \in Arms : \E j, k \in 1..BOMB_RANGE :
          /\ j < k
          /\ IsWallA(gameState.map, b.x + d.x * j, b.y + d.y * j)
          /\ Pos(b.x + d.x * k, b.y + d.y * k) \in Layout(gameState.map).floor
          /\ Pos(b.x + d.x * k, b.y + d.y * k) \notin gameState.activeBlasts
          /\ Pos(b.x, b.y) \in gameState.activeBlasts

\* C28: a level-up choice raises level by exactly 1, lowers xp by exactly the
\* previous xpToNextLevel, sets xpToNextLevel to
\* floor(XP_BASE * level^XP_GROWTH_FACTOR) for the new level, and applies
\* exactly one of maxHp + 20 with hp set to the new maxHp, or attack + 5;
\* nothing else in the player changes.
\* floor(XP_BASE * level^1.5) is the largest n with n^2 <= XP_BASE^2 * level^3
C28_Floor(level) ==
    CHOOSE n \in 0..(XP_BASE * level * level) :
        /\ n * n <= XP_BASE * XP_BASE * level * level * level
        /\ (n + 1) * (n + 1) > XP_BASE * XP_BASE * level * level * level

C28_Advanced(p) ==
    [p EXCEPT !.level = p.level + 1,
              !.xp = p.xp - p.xpToNextLevel,
              !.xpToNextLevel = C28_Floor(p.level + 1)]

C28_ChoiceIsExact ==
    [][fx'.op = "choice" =>
          LET p == gameState.player
          IN  \/ gameState'.player =
                    [C28_Advanced(p) EXCEPT !.maxHp = p.maxHp + 20, !.hp = p.maxHp + 20]
              \/ gameState'.player = [C28_Advanced(p) EXCEPT !.attack = p.attack + 5]]_vars

\* a Knight (maxHp 120) has taken the hp choice: level 2, hp at the raised
\* maximum of 140, the threshold of level 2 in force
C28_HealedByChoice ==
    /\ fx.op = "choice"
    /\ gameState.player.level = 2
    /\ gameState.player.maxHp = 140
    /\ gameState.player.hp = 140
    /\ gameState.player.xpToNextLevel = 282
    /\ \E i \in DOMAIN gameState.enemies :
          gameState.enemies[i].hp > 0 /\ gameState.enemies[i].attack > 0

\* C29: after a committed move or a melee attack that leaves the player alive
\* and is neither an exit step nor a wizard step, the enemy turn runs exactly
\* once before the input lock is released (it has run in the handler, or
\* exactly one callback that runs it is pending and the lock is held until it
\* has fired); an enemy turn never starts for a player whose hp is <= 0, and
\* none is queued by an action that has brought the hp to <= 0.
C29_Pending(ts) ==
    Cardinality({i \in DOMAIN ts :
        \/ ts[i].kind = "afterTurn" /\ ts[i].data.enemiesMove /\ ~ts[i].data.exit
        \/ ts[i].kind = "afterMelee" /\ ts[i].data.alive})

C29_TurnConsumed == fx'.op \in {"step", "melee"}

C29_PlainTile ==
    fx'.op = "step" => fx'.to \notin {Layout(gameState.map).wizard, Layout(gameState.map).exit}

C29_OnceForTheLiving ==
    (C29_TurnConsumed /\ C29_PlainTile /\ gameState'.player.hp > 0 /\ ~isGameOver') =>
        /\ Len(fx'.enemyTurns) + C29_Pending(timers') = 1
        /\ C29_Pending(timers') = 1 => animatingRef'

C29_LockOutlastsTurn ==
    (animatingRef /\ ~animatingRef') => C29_Pending(timers') = 0

C29_NoneForTheDead ==
    /\ C29_TurnConsumed \/ (engine = "A" /\ fx'.op = "none") =>
           \A i \in DOMAIN fx'.enemyTurns : fx'.enemyTurns[i] > 0
    /\ (C29_TurnConsumed /\ gameState'.player.hp <= 0) => C29_Pending(timers') = 0

C29_EnemyTurnOncePerAction ==
    [][C29_OnceForTheLiving /\ C29_LockOutlastsTurn /\ C29_NoneForTheDead]_vars

\* engine B: the poison tick of a move has brought the player to hp <= 0,
\* the enemy turn of that move has run all the same, and an enemy has struck
\* the fallen player
C29_StruckAfterDeath ==
    /\ engine = "B"
    /\ fx.op \in {"step", "melee"}
    /\ fx.ticks = 1
    /\ fx.enemyTurns # << >>
    /\ fx.enemyTurns[1] <= 0
    /\ gameState.player.hp < fx.enemyTurns[1]

\* C30: a committed step onto a PIT ends with the player's hp at 0 and the
\* game over, whatever an item on that tile has healed; a step onto SPIKES or
\* FIRE takes exactly 5 + level or 8 + level hp (the level of the dungeon)
\* when nothing else touches the player's hp in that step: no poison tick, no
\* blast on the tile, no item newly picked up there, no enemy within reach.
C30_HazardAt(tile) == FindAt(Layout(gameState.map).hazards, tile)

C30_Damage(type) == IF type = "SPIKES" THEN 5 + gameState.level ELSE 8 + gameState.level

C30_OnlyTheHazard ==
    /\ fx'.ticks = 0
    /\ fx'.to \notin gameState'.activeBlasts
    /\ fx'.to \in gameState.pickedUpItems \/ FindAt(Layout(gameState.map).items, fx'.to) = {}
    /\ \A e \in SeqToSet(gameState.enemies) :
          Abs(e.x - fx'.to.x) + Abs(e.y - fx'.to.y) > 2

C30_HazardsBite ==
    [][\A h \in C30_HazardAt(fx'.to) :
          fx'.op = "step" =>
             IF h.type = "PIT"
             THEN gameState'.player.hp = 0 /\ isGameOver'
             ELSE C30_OnlyTheHazard =>
                    LET left == gameState.player.hp - C30_Damage(h.type)
                    IN  IF left > 0 THEN gameState'.player.hp = left
                        ELSE gameState'.player.hp = 0 /\ isGameOver']_vars

\* engine B: the Knight stands on the pit, hp untouched by the spikes and
\* the pit, the game still running
C30_StandingOnThePit ==
    /\ engine = "B"
    /\ gameState.map = 13
    /\ fx.op = "step"
    /\ fx.to = Pos(3, 1)
    /\ Pos(gameState.player.x, gameState.player.y) = Pos(3, 1)
    /\ gameState.player.hp = gameState.player.maxHp
    /\ ~isGameOver

\* C31: in every reachable state (after pickups, purchases, uses, level
\* transitions and restarts) the consumable counters respect their caps:
\* arrows <= maxArrows, bombs <= maxBombs, potions <= 3, antidotes <= 3.
C31_CountersWithinCaps ==
    /\ gameState.player.arrows <= gameState.player.maxArrows
    /\ gameState.player.bombs <= gameState.player.maxBombs
    /\ gameState.player.potions <= 3
    /\ gameState.player.antidotes <= 3

\* engine B: the Knight has bought arrows twice in the market with 50 gold,
\* and the second purchase was cut at maxArrows
C31_SecondQuiverCut ==
    /\ engine = "B"
    /\ gameState.map = 8
    /\ fx.op = "buy" /\ fx.item = "ARROWS"
    /\ gameState.player.gold = 20
    /\ gameState.player.arrows = gameState.player.maxArrows

\* C32: the player's screen always lies inside the WORLD_SCREENS_W x
\* WORLD_SCREENS_H world (a move toward a screen outside it is rejected), and
\* whenever no screen transition is pending the camera is the screen that
\* contains the player.
C32_InWorld(screen) ==
    /\ screen.x >= 0 /\ screen.x < WORLD_SCREENS_W
    /\ screen.y >= 0 /\ screen.y < WORLD_SCREENS_H

C32_CameraOnPlayer ==
    /\ C32_InWorld(ScreenOf(gameState.player.x, gameState.player.y))
    /\ ~isTransitioning =>
          /\ gameState.camera = ScreenOf(gameState.player.x, gameState.player.y)
          /\ C32_InWorld(gameState.camera)

\* engine B: the Knight has walked west off the edge of the world and the
\* camera has followed to screen -1
C32_WestOfTheWorld ==
    /\ engine = "B"
    /\ gameState.map = 14
    /\ fx.op = "step"
    /\ gameState.player.x = -1
    /\ gameState.camera = Pos(-1, 0)

\* C33: turn resolution does not read the presentation state.  Wherever a
\* bomb is laid or a blast is on display: for the state reached and the
\* state that differs from it only in activeBlasts
\* (every floor tile shown when none is, none shown otherwise), the same
\* turn (a step to a neighbouring floor tile or a turn spent in place,
\* wherever input is accepted; the enemy turn, wherever a callback is
\* pending) with the same draws gives results that agree in everything but
\* activeBlasts: player, enemies, bombs, picked-up set, level, and what the
\* resolution decided.
C33_Shown(gs) ==
    [gs EXCEPT !.activeBlasts =
        IF gs.activeBlasts = {} THEN Layout(gs.map).floor ELSE {}]

C33_Hidden(result) == [result EXCEPT !.state.activeBlasts = {}]

C33_Neighbours(gs) ==
    {t \in {Pos(gs.player.x + DirDelta(d).x, gs.player.y + DirDelta(d).y) : d \in Directions} :
        t \in Layout(gs.map).floor}

TimerStep ==
    \/ TimerAfterTurnA
    \/ TimerAfterMeleeA
    \/ TimerUnlockA
    \/ TimerScreenMoveA
    \/ TimerMoveArrowA
    \/ TimerArrowTickB
    \/ TimerClearBlasts
    \/ TimerNextLevel

LiveSpec == Spec /\ WF_vars(TimerStep)

\* C34: in engine A, from every state in which animatingRef is set, an arrow
\* is in flight or a transition is pending, the callbacks alone lead to a
\* state with animatingRef false, no arrow and isTransitioning false (or to
\* the next-level callback of the last game that is followed).
C34_Locked ==
    engine = "A" /\ (animatingRef \/ arrowProjectile # NoArrow \/ isTransitioning)

C34_Released == ~animatingRef /\ arrowProjectile = NoArrow /\ ~isTransitioning

C34_RunEnds ==
    /\ timers # << >>
    /\ Head(timers).kind = "nextLevel"
    /\ ~(games < NewGamesFollowed /\ Head(timers).data.level < MaxDungeonLevel)

C34_LockReleased == C34_Locked ~> (C34_Released \/ C34_RunEnds)

\* engine A: the next level has been entered from the exit, no callback is
\* pending, and animatingRef is still set
C34_LockedOnNewLevel ==
    /\ engine = "A"
    /\ gameState.level = 2
    /\ timers = << >>
    /\ ~isGameOver /\ ~isTransitioning /\ arrowProjectile = NoArrow
    /\ animatingRef

\* C35: an arrow in flight is over a floor tile of the map that no living
\* enemy stands on (the flight has ended at the first wall, map edge or
\* living enemy), and its flight ends: the callbacks alone lead to a state
\* without a projectile in which the lock of the flight is released.
C35_OverOpenFloor ==
    arrowProjectile # NoArrow =>
        /\ Pos(arrowProjectile.x, arrowProjectile.y) \in Layout(gameState.map).floor
        /\ FirstLivingAt(gameState.enemies,
                         Pos(arrowProjectile.x, arrowProjectile.y)) = 0

C35_FlightEnds ==
    /\ []C35_OverOpenFloor
    /\ arrowProjectile # NoArrow ~>
          (arrowProjectile = NoArrow /\ (engine = "B" => ~animatingRef))

\* engine A: the arrow shot westward from column 0 is in flight outside the
\* map
C35_ArrowLeftTheMap ==
    /\ engine = "A"
    /\ arrowProjectile # NoArrow
    /\ ~InMap(arrowProjectile.x, arrowProjectile.y)

\* C36: in engine A a restart leaves level 1 and the restarted player, and a callback
\* that was pending when the game was restarted (or that such a callback
\* has scheduled) leaves everything of the restarted state but the blast
\* display as it is.
C36_Authoritative(gs) == [gs EXCEPT !.activeBlasts = {}]

C36_Restarted ==
    (engine = "A" /\ fx'.op = "restart") =>
        /\ gameState'.level = 1
        /\ gameState'.player = NewGameState(1, gameState.map,
                                    RetainedOnRestart(gameState.player)).player

C36_CallbackSpares ==
    (engine = "A" /\ timers # << >> /\ Head(timers).old /\ TimerStep) =>
        C36_Authoritative(gameState') = C36_Authoritative(gameState)

C36_RestartStands == [][C36_Restarted /\ C36_CallbackSpares]_vars

\* engine A: the game has just been restarted from the pause modal while
\* the callback of a step onto the exit is pending
C36_RestartedBeforeExitCallback ==
    /\ engine = "A"
    /\ fx.op = "restart"
    /\ gameState.level = 1
    /\ timers # << >>
    /\ Head(timers).kind = "afterTurn"
    /\ Head(timers).data.exit

\* C37: no two living enemies stand on the same tile.
C37_Living(gs) == {i \in DOMAIN gs.enemies : gs.enemies[i].hp > 0}

C37_Shared(gs) ==
    \E i, j \in C37_Living(gs) :
        /\ i < j
        /\ gs.enemies[i].x = gs.enemies[j].x
        /\ gs.enemies[i].y = gs.enemies[j].y

C38_OnEnemy ==
    \E i \in DOMAIN gameState.enemies :
        /\ gameState.enemies[i].hp > 0
        /\ gameState.enemies[i].x = gameState.player.x
        /\ gameState.enemies[i].y = gameState.player.y

C38_PlayerAloneOnTile == ~C38_OnEnemy

\* engine A: the player has crossed into the next screen onto the tile of a
\* living enemy
C38_CrossedOntoEnemy ==
    /\ engine = "A"
    /\ C38_OnEnemy
    /\ gameState.camera # Pos(0, 0)

\* C39: the player's xp is never negative, and a level-up choice is applied
\* only in a state where xp >= xpToNextLevel.
C39_ChoiceIsDue ==
    fx'.op = "choice" => gameState.player.xp >= gameState.player.xpToNextLevel

C39_XpNeverNegative ==
    /\ [](gameState.player.xp >= 0)
    /\ [][C39_ChoiceIsDue]_vars

\* engine A, first game: the choice of a prompt opened by a melee kill has
\* been applied to a player whose xp the kill did not raise to the threshold
C39_XpBelowZero ==
    /\ engine = "A"
    /\ games = 0
    /\ fx.op = "choice"
    /\ gameState.player.level = 2
    /\ gameState.player.xp < 0

\* C40: arrows, bombs, potions and antidotes are never negative, and a
\* request acts only where it is due: an arrow is fired, a bomb laid, a
\* potion or an antidote drunk only from a count above zero (the potion
\* below full hp, the antidote while poisoned), and takes exactly one.
C40_Counters(p) == << p.arrows, p.bombs, p.potions, p.antidotes >>

C40_NonNegative ==
    \A i \in 1..4 : C40_Counters(gameState.player)[i] >= 0

C40_Takes(i) ==
    /\ C40_Counters(gameState.player)[i] > 0
    /\ C40_Counters(gameState'.player) =
          [C40_Counters(gameState.player) EXCEPT ![i] = @ - 1]

C40_UseIsDue ==
    /\ fx'.op = "fire" => C40_Takes(1)
    /\ fx'.op = "bomb" => C40_Takes(2)
    /\ fx'.op = "potion" =>
          C40_Takes(3) /\ gameState.player.hp < gameState.player.maxHp
    /\ fx'.op = "antidote" => C40_Takes(4) /\ gameState.player.isPoisoned

C40_CountersNeverNegative == []C40_NonNegative /\ [][C40_UseIsDue]_vars

\* the last potion has been drunk
C40_LastPotionDrunk ==
    /\ fx.op = "potion"
    /\ gameState.player.potions = 0
====
